---- MODULE Spec2Model ----
(***************************************************************************)
(* Session orchestration core of AUTO: agent model (file-watch and poll    *)
(* opencode providers), provider index and discovery, registry fan-in,     *)
(* and the session manager's reconciliation loop.                          *)
(*                                                                         *)
(* Time is in seconds from an arbitrary origin.  An agent instance is an   *)
(* index into heap (a Go pointer); provider indexes, the live map and      *)
(* events hold instance indexes, so two views alias the same object iff    *)
(* they hold the same index.                                               *)
(***************************************************************************)
EXTENDS Integers, Sequences, FiniteSets, TLC

\* ---------------------------------------------------------------- bounds
MaxInst   == 3     \* agent instances allocated in one behaviour
MaxWrites == 3     \* writes of the upstream runtime in one behaviour
MaxMsgs   == 1     \* messages per upstream session
MaxParts  == 2     \* parts per upstream message
MaxEvents == 3     \* events the opencode provider emits
MaxMockEvents == 1 \* events sent through the MockProvider
ChanCap   == 1     \* slots of a provider's watch channel (100 in the program)
MergedCap == 2     \* slots of the merged channel (100 in the program)
MaxPipeWrites == 2 \* upstream writes while the manager is observed
RingCap   == 2     \* alerts the in-memory ring keeps (1000 in the program)
MaxAlertOps == 4   \* calls on the Alert Manager in one behaviour
MaxNanos  == 1     \* readings the nanosecond clock can give

\* ------------------------------------------------------ program constants
RunningWindow == 60     \* 60*time.Second
ErrorWindow   == 300    \* 5*time.Minute
IdleWindow    == 1800   \* 30*time.Minute
maxAge        == 0      \* Provider.maxAge (0 = keep all)

\* instants the clock visits (both sides of every window above)
Instants == {0, 60, 300, 1800}

SessionIDs == {"ses_A", "ses_B"}

\* the two implementations of the "opencode" provider: file-watch over the
\* storage tree, poll over the CLI listing.  Both return Type() "opencode",
\* so a Registry holds one of them.
Impls == {"fw", "poll"}

\* a text part carries no state; a tool part is running, success or error
PartStates == {"", "running", "success", "error"}

VARIABLES
    impl,     \* the implementation registered as the "opencode" provider
    now,      \* wall clock
    up,       \* upstream runtime: session id -> session file, messages, parts
    writes,   \* upstream writes so far
    heap,     \* agent instances, in allocation order
    index,    \* Provider.agents: provider -> session id -> instance (0 = absent)
    disc,     \* the results of the provider's last two Discover calls
    \* --- registry fan-in and session manager
    storePresent, \* Manager.store != nil
    started,      \* Manager.Start has run
    ctxDone,      \* the scope given to Start is cancelled
    notif,        \* file-watch: session files with a pending change notification
    wpc,          \* opencode watch goroutine: off, select, visit, send, closed
    wtodo,        \* rest of the pass in progress (instances / listed sessions)
    wevt,         \* the event the watch goroutine is sending
    chan,         \* provider -> its watch channel
    emitted,      \* provider -> events put on its watch channel so far
    fpc,          \* provider -> forwarder goroutine: off, recv, send, done
    fheld,        \* provider -> the event its forwarder took and has not sent
    merged,       \* the merged channel of WatchAll
    mockClosed,   \* MockProvider.Close has been called
    mergedClosed, \* close(merged) has been called
    mpc,          \* reconciliation task: off, recv, store, alert, callback, done
    mcur,         \* the event handleEvent is working on
    agents,       \* Manager.agents, the live map: id -> instance (0 = absent)
    store,        \* Store sessions table: id -> status of the row ("" = no row)
    trace,        \* steps of handleEvent taken so far, in order
    rpc,          \* Manager.Refresh: idle, apply (discovery done, lock not yet taken)
    rsnap,        \* the agents DiscoverAll returned to Refresh
    termd,        \* id -> instance Manager.Terminate cancelled (0 = none)
    \* --- alert manager
    channels,     \* alert.Manager.channels, in configuration order
    alerts,       \* alert.Manager.alerts, the in-memory ring, oldest first
    nanos,        \* time.Now().UnixNano() as the next reading gives it
    accepted,     \* the ids of all alerts Send accepted, in order
    aop,          \* the last call on the Alert Manager and what it returned
    \* --- control operations
    registry,     \* Registry.providers: the provider types, in registration order
    api,          \* the control operation in progress or last made, and its outcome
    \* --- agent output
    outbuf,       \* the output buffer of one file-watch agent, its storage and a reader
    \* --- store
    db,           \* the sessions and output_chunks tables, and the last Store call
    \* --- manager lifecycle
    life,         \* the scopes and reconciliation tasks Start made, and m.cancel
    ui,           \* main's position, m.onEvent, the UI's event queue and what it read
    plug,         \* the plugin Manager: its plugins, the Registry, the last call
    fsw,          \* the file watcher: notifications waiting, events sent, the last change handled
    rhist,        \* history of the Manager.Refresh under way: ids put into the live map since its snapshot, Discover failed
    runner        \* the streaming Runner: r.running, its child process, done, the calls made

agentVars == <<impl, now, up, writes, heap, index, disc>>

pipeVars == <<storePresent, started, ctxDone, notif, wpc, wtodo, wevt, chan,
              emitted, fpc, fheld, merged, mockClosed, mergedClosed, mpc, mcur, agents,
              store, trace, rpc, rsnap, termd>>

vars == <<impl, now, up, writes, heap, index, disc,
          storePresent, started, ctxDone, notif, wpc, wtodo, wevt, chan,
          emitted, fpc, fheld, merged, mockClosed, mergedClosed, mpc, mcur, agents,
          store, trace, rpc, rsnap, termd,
          channels, alerts, nanos, accepted, aop, registry, api, outbuf, db, life, ui, plug, fsw, rhist, runner>>

alertVars == <<channels, alerts, nanos, accepted, aop>>

apiVars == <<registry, api>>

moreVars == <<outbuf, db, life, ui, plug, fsw, rhist, runner>>
moreRest == <<outbuf, db, life, ui, plug, fsw, runner>>

\* ------------------------------------------------------------- helpers
Range(s) == {s[k] : k \in 1..Len(s)}

RECURSIVE SeqOfSet(_)
\* a set of session ids as a sequence in directory (name) order
SeqOfSet(S) ==
    IF S = {} THEN <<>>
    ELSE LET x == IF "ses_A" \in S THEN "ses_A" ELSE CHOOSE y \in S : TRUE
         IN <<x>> \o SeqOfSet(S \ {x})

RECURSIVE InsertByCreated(_, _)
InsertByCreated(sorted, x) ==
    IF sorted = <<>> THEN <<x>>
    ELSE IF x.created < Head(sorted).created THEN <<x>> \o sorted
    ELSE <<Head(sorted)>> \o InsertByCreated(Tail(sorted), x)

RECURSIVE SortByCreated(_)
\* sort.Slice(..., Created <) on a slice read in directory order
SortByCreated(s) ==
    IF s = <<>> THEN <<>>
    ELSE InsertByCreated(SortByCreated(SubSeq(s, 1, Len(s) - 1)), s[Len(s)])

\* the element of a one-element set; {F(x) : x \in {e}} applies F to the
\* value of e, which is then computed once
The(S) == CHOOSE r \in S : TRUE

RECURSIVE Flatten(_)
Flatten(ss) == IF ss = <<>> THEN <<>> ELSE Head(ss) \o Flatten(Tail(ss))

\* ------------------------------------------------------------ upstream
\* sessions of the runtime whose storage tree holds messages and parts (the
\* CLI listing of the poll provider shows none)
HasMessages == {"ses_A"}

NoSession == [exists |-> FALSE, created |-> 0, updated |-> 0, msgs |-> <<>>]

\* a window test that lets the boundary instant in
WithinInclusive(t, since, window) == t - since <= window

\* time.Since(t) < window
Within(t, since, window) == t - since < window

\* the status the three time windows give
WindowStatus(t, since) ==
    IF Within(t, since, RunningWindow) THEN "running"
    ELSE IF Within(t, since, IdleWindow) THEN "idle"
    ELSE "completed"

\* ------------------------------------------------- file-watch agent model
determineStatusFast(a, t) ==
    [a EXCEPT !.status = WindowStatus(t, a.lastActivity)]

NewOpenCodeAgent(s, t) ==
    determineStatusFast(
        [id |-> s, kind |-> "fw", status |-> "idle",
         startTime |-> up[s].created, lastActivity |-> up[s].updated,
         messages |-> <<>>, loaded |-> FALSE, output |-> <<>>], t)

\* the parts of the agent's cached messages, in the order they are read:
\* message by message, each message's part directory in name order
PartsRead(a) ==
    Flatten([k \in 1..Len(a.messages) |->
        LET ps == up[a.id].msgs[a.messages[k].mid].parts
        IN [j \in 1..Len(ps) |-> [mid |-> a.messages[k].mid, pid |-> j,
                                  state |-> ps[j].state, created |-> ps[j].created,
                                  text |-> ps[j].state = ""]]])

loadParts(a) ==
    LET sorted == SortByCreated(PartsRead(a))
        texts  == SelectSeq(sorted, LAMBDA p : p.text)
    IN [a EXCEPT !.output = a.output \o
            [k \in 1..Len(texts) |-> <<texts[k].mid, texts[k].pid>>]]

\* a missing message directory leaves a.messages as it was
loadMessages(a) ==
    IF Len(up[a.id].msgs) = 0 THEN a
    ELSE The({loadParts(x) : x \in {[a EXCEPT !.messages = SortByCreated(
            [k \in 1..Len(up[a.id].msgs) |->
                [mid |-> k, created |-> up[a.id].msgs[k].created]])]}})

\* the first part, in read order, that decides the status
Decisive(p, recent) ==
    p.state = "running" \/ (p.state = "error" /\ recent)

determineStatus(a, t) ==
    IF Len(a.messages) = 0 THEN [a EXCEPT !.status = "pending"]
    ELSE LET lastMsgTime == a.messages[Len(a.messages)].created
             recent == Within(t, lastMsgTime, ErrorWindow)
             parts  == PartsRead(a)
             hits   == {k \in 1..Len(parts) : Decisive(parts[k], recent)}
         IN IF hits # {} THEN
                LET p == parts[CHOOSE k \in hits : \A j \in hits : k <= j]
                IN IF p.state = "running"
                   THEN [a EXCEPT !.status = "running", !.lastActivity = t]
                   ELSE [a EXCEPT !.status = "errored", !.lastActivity = p.created]
            ELSE [a EXCEPT !.status = WindowStatus(t, lastMsgTime),
                           !.lastActivity = lastMsgTime]

\* fail: "session" the session file cannot be read, "messages" the message
\* directory cannot be listed, "none" every read succeeds
Refresh(a, t, fail) ==
    IF fail = "session" \/ ~up[a.id].exists THEN a
    ELSE LET a1 == [a EXCEPT !.lastActivity = up[a.id].updated, !.output = <<>>]
         IN IF fail = "messages" THEN a1
            ELSE The({determineStatus(x, t) : x \in {loadMessages(a1)}})

LoadFullHistory(a, t) ==
    IF a.loaded THEN a
    ELSE [determineStatus(loadMessages(a), t) EXCEPT !.loaded = TRUE]

\* ------------------------------------------------------- poll agent model
CLI_determineStatus(a, t) ==
    [a EXCEPT !.status = WindowStatus(t, a.lastActivity)]

\* a constructor that takes the two timestamps of the listing the other way
\* round
NewAgentTimesSwapped(s, t) ==
    CLI_determineStatus(
        [id |-> s, kind |-> "poll", status |-> "idle",
         startTime |-> up[s].updated, lastActivity |-> up[s].created,
         messages |-> <<>>, loaded |-> FALSE, output |-> <<>>], t)

NewOpenCodeAgentFromCLI(s, t) ==
    CLI_determineStatus(
        [id |-> s, kind |-> "poll", status |-> "idle",
         startTime |-> up[s].created, lastActivity |-> up[s].updated,
         messages |-> <<>>, loaded |-> FALSE, output |-> <<>>], t)

Update(a, t) ==
    CLI_determineStatus([a EXCEPT !.lastActivity = up[a.id].updated], t)

\* OpenCodeAgent.Terminate, both providers
AgentTerminate(a) == [a EXCEPT !.status = "cancelled"]


\* ------------------------------------------------------- upstream runtime
\* the runtime creates a session: session/<project>/<id>.json appears
UpCreateSession(s) ==
    /\ writes < MaxWrites
    /\ ~up[s].exists
    /\ up' = [up EXCEPT ![s] = [exists |-> TRUE, created |-> now,
                                updated |-> now, msgs |-> <<>>]]

\* the runtime rewrites the session file with a new time.updated
UpTouchSession(s) ==
    /\ writes < MaxWrites
    /\ up[s].exists
    /\ up[s].updated # now
    /\ up' = [up EXCEPT ![s].updated = now]

\* message/<session>/<id>.json appears
UpAddMessage(s) ==
    /\ writes < MaxWrites
    /\ s \in HasMessages
    /\ up[s].exists
    /\ Len(up[s].msgs) < MaxMsgs
    /\ up' = [up EXCEPT ![s].msgs = Append(@, [created |-> now, parts |-> <<>>]),
                        ![s].updated = now]

\* part/<message>/<id>.json appears
UpAddPart(s, m, st) ==
    /\ writes < MaxWrites
    /\ m \in 1..Len(up[s].msgs)
    /\ Len(up[s].msgs[m].parts) < MaxParts
    /\ up' = [up EXCEPT ![s].msgs[m].parts =
                Append(@, [state |-> st, created |-> now])]

\* a running tool call ends
UpSetPartState(s, m, k, st) ==
    /\ writes < MaxWrites
    /\ m \in 1..Len(up[s].msgs)
    /\ k \in 1..Len(up[s].msgs[m].parts)
    /\ up[s].msgs[m].parts[k].state = "running"
    /\ st \in {"success", "error"}
    /\ up' = [up EXCEPT ![s].msgs[m].parts[k].state = st]

\* -------------------------------------------------------- provider index
NoIndex == [s \in SessionIDs |-> 0]

\* the instances the provider index refers to
Indexed(ix) == {ix[s] : s \in SessionIDs} \ {0}

\* an instance nothing refers to any more
Freed(a) ==
    [id |-> a.id, kind |-> a.kind, status |-> "freed", startTime |-> 0,
     lastActivity |-> 0, messages |-> <<>>, loaded |-> FALSE, output |-> <<>>]

\* the heap with every unreferenced instance freed
Collect(h, live) == [i \in 1..Len(h) |-> IF i \in live THEN h[i] ELSE Freed(h[i])]

\* the session files a Discover pass keeps, in directory order
Kept(t) ==
    SeqOfSet({s \in SessionIDs :
        /\ up[s].exists
        /\ ~(maxAge > 0 /\ t - up[s].updated > maxAge)})

\* file-watch Discover: the index is cleared and every session file read
\* becomes a new instance.  h is the heap before the call.
\* Result: [ok, heap, index, agents (the instances returned)]
FwDiscover(h, t, readable) ==
    IF ~readable
    THEN [ok |-> FALSE, heap |-> h, index |-> NoIndex, agents |-> <<>>]
    ELSE LET ss == Kept(t)
         IN [ok    |-> TRUE,
             heap  |-> h \o [k \in 1..Len(ss) |-> NewOpenCodeAgent(ss[k], t)],
             index |-> [s \in SessionIDs |->
                          IF \E k \in 1..Len(ss) : ss[k] = s
                          THEN Len(h) + (CHOOSE k \in 1..Len(ss) : ss[k] = s)
                          ELSE 0],
             agents |-> [k \in 1..Len(ss) |-> Len(h) + k]]

RECURSIVE PollDiscoverLoop(_, _, _, _, _)
\* one iteration per listed session: update the indexed instance or create one
PollDiscoverLoop(ss, h, ix, out, t) ==
    IF ss = <<>> THEN [ok |-> TRUE, heap |-> h, index |-> ix, agents |-> out]
    ELSE LET s == Head(ss)
         IN IF ix[s] # 0
            THEN PollDiscoverLoop(Tail(ss),
                    [h EXCEPT ![ix[s]] = Update(h[ix[s]], t)],
                    ix, Append(out, ix[s]), t)
            ELSE PollDiscoverLoop(Tail(ss),
                    Append(h, NewOpenCodeAgentFromCLI(s, t)),
                    [ix EXCEPT ![s] = Len(h) + 1],
                    Append(out, Len(h) + 1), t)

\* poll Discover: a failed `opencode session list` returns the error and
\* touches nothing
PollDiscover(h, ix, t, fetched) ==
    IF ~fetched
    THEN [ok |-> FALSE, heap |-> h, index |-> ix, agents |-> <<>>]
    ELSE PollDiscoverLoop(Kept(t), h, ix, <<>>, t)

\* Provider.Discover of the registered implementation
Discover(im, h, ix, t, okIO) ==
    IF im = "fw" THEN FwDiscover(h, t, okIO) ELSE PollDiscover(h, ix, t, okIO)

\* what the two latest successful Discover calls returned, as <<id, instance>>
NoDisc == [prev |-> <<>>, last |-> <<>>, fresh |-> FALSE, succ |-> FALSE]

Discovered(d, r) ==
    [prev  |-> d.last,
     last  |-> [k \in 1..Len(r.agents) |-> <<r.heap[r.agents[k]].id, r.agents[k]>>],
     fresh |-> TRUE,
     succ  |-> d.fresh]

\* ------------------------------------------------ registry and manager
\* the providers of the Registry: the opencode provider and a MockProvider
Provs == {"opencode", "mock"}

AgentIDs == SessionIDs \cup {"mock_1", "spawn-id"}

\* sessions the runtime creates while the manager runs
PipeSessions == {"ses_A"}

\* the instants the clock takes while the manager runs
PipeInstants == {0, RunningWindow}

EventTypes == {"discovered", "updated", "started", "completed", "errored",
               "context_limit", "terminated", "paused", "resumed", "input",
               "output"}

\* event types the MockProvider is made to send
MockEventTypes == {"updated", "terminated"}

NoEvent == [type |-> "", id |-> "", agent |-> 0, src |-> "", seq |-> 0]

NewMockAgent(id) ==
    [id |-> id, kind |-> "mock", status |-> "running", startTime |-> 0,
     lastActivity |-> 0, messages |-> <<>>, loaded |-> FALSE, output |-> <<>>]

\* MockProvider.MockAgents
MockAgents(h) == SelectSeq([i \in 1..Len(h) |-> i], LAMBDA i : h[i].kind = "mock")

\* a receive that takes the newest element
ChanRecvNewest(ch) == [val |-> ch[Len(ch)], rest |-> SubSeq(ch, 1, Len(ch) - 1)]

\* a Go channel: send appends, receive takes the oldest element
ChanSend(ch, e) == Append(ch, e)

ChanRecv(ch) == [val |-> Head(ch), rest |-> Tail(ch)]

\* no variable of the registry and manager layer has been touched
PipeIdle ==
    /\ started = FALSE
    /\ ctxDone = FALSE
    /\ notif = {}
    /\ wpc = "off"
    /\ wtodo = <<>>
    /\ wevt = NoEvent
    /\ chan = [p \in Provs |-> <<>>]
    /\ emitted = [p \in Provs |-> 0]
    /\ fpc = [p \in Provs |-> "off"]
    /\ fheld = [p \in Provs |-> NoEvent]
    /\ merged = <<>>
    /\ mockClosed = FALSE
    /\ mergedClosed = FALSE
    /\ mpc = "off"
    /\ mcur = NoEvent
    /\ agents = [id \in AgentIDs |-> 0]
    /\ store = [id \in AgentIDs |-> ""]
    /\ trace = <<>>
    /\ rpc = "idle"
    /\ rsnap = <<>>
    /\ termd = [id \in AgentIDs |-> 0]

\* Registry.DiscoverAll: a provider whose Discover fails is skipped
DiscoverAll(h, ix, t, okIO) ==
    LET r == Discover(impl, h, ix, t, okIO)
    IN [heap |-> r.heap, index |-> r.index,
        agents |-> (IF r.ok THEN r.agents ELSE <<>>) \o MockAgents(h)]

RECURSIVE PutAll(_, _, _)
\* m.agents[a.ID()] = a for every agent of the list, in order
PutAll(m, as, h) ==
    IF as = <<>> THEN m
    ELSE PutAll([m EXCEPT ![h[Head(as)].id] = Head(as)], Tail(as), h)

RECURSIVE SaveAll(_, _, _)
\* store.SaveSession for every agent of the list: the row takes its status
SaveAll(st, as, h) ==
    IF as = <<>> THEN st
    ELSE SaveAll([st EXCEPT ![h[Head(as)].id] = h[Head(as)].status], Tail(as), h)

\* the instances some variable still refers to
EventRefs == {e.agent : e \in Range(chan["opencode"]) \cup Range(chan["mock"])
                          \cup Range(merged)
                          \cup {fheld["opencode"], fheld["mock"], mcur, wevt}}

LiveRefs ==
    (Indexed(index) \cup {agents[id] : id \in AgentIDs} \cup EventRefs
       \cup Range(rsnap) \cup (IF impl = "fw" THEN Range(wtodo) ELSE {})) \ {0}

\* -------------------------------------------------------- alert manager
\* no call on the Alert Manager yet
NoCall == [n |-> 0, op |-> "", arg |-> "", id |-> <<>>, made |-> FALSE,
           failed |-> {}, sent |-> <<>>, ret |-> ""]

\* an Alert Manager without channels that nothing has called
AlertIdle ==
    /\ channels = <<>>
    /\ alerts = <<>>
    /\ nanos = 0
    /\ accepted = <<>>
    /\ aop = NoCall

\* ------------------------------------------------- control operations
\* no control operation yet
NoApi == [n |-> 0, op |-> "", pc |-> "done", prov |-> "", id |-> "", text |-> "",
          target |-> 0, res |-> "", ret |-> "", agent |-> 0]

\* the Registry main builds, which no control operation has used
ApiIdle ==
    /\ registry = <<"opencode", "mock">>
    /\ api = NoApi

\* --------------------------------------------------------- agent output
\* no Output() call yet
NoReader == [taken |-> FALSE, arr |-> 0, len |-> 0, snap |-> <<>>]

\* bytes.NewBuffer(nil) of an agent whose session has no text part
NoOut == [arrays |-> <<>>, buf |-> [arr |-> 0, len |-> 0], loaded |-> FALSE,
          texts |-> <<>>, reader |-> NoReader]

\* ---------------------------------------------------------------- store
\* session ids of the Store
StoreIDs == {"ses_A", "ses_B"}

\* a row that is not in the sessions table
NoRow == [present |-> FALSE, agent_name |-> "", directory |-> "", project_id |-> "",
          status |-> "", end_time |-> [null |-> TRUE, t |-> 0], updated_at |-> 0]

\* no Store call yet
NoStoreCall == [n |-> 0, op |-> "", id |-> "", rec |-> <<>>, got |-> <<>>]

\* the database after migrate()
NoDB == [rows |-> [id \in StoreIDs |-> NoRow], chunks |-> [id \in StoreIDs |-> 0],
         call |-> NoStoreCall]

\* ----------------------------------------------------- manager lifecycle
\* a Manager on which neither Start nor Stop was called: no scope, no task,
\* m.cancel nil (0), the caller's context not cancelled
NoLife == [scopes |-> <<>>, tasks |-> <<>>, cancel |-> 0, parent |-> FALSE,
           n |-> 0, op |-> "", handled |-> 0]

\* main before sessionMgr.Start: no callback registered (m.onEvent nil), the
\* UI's queue not made yet, no event handled
NoUI == [pc |-> "init", onEvent |-> FALSE, queue |-> <<>>, seen |-> <<>>,
         handled |-> 0, op |-> ""]

\* no plugin (the zero value a Go map lookup returns for a missing key)
NoPlugin == [name |-> "", type |-> "", version |-> 0]

PluginNames == {"", "p1", "p2"}
PluginTypes == {"mock", "alt"}

\* a plugin Manager just made by NewManager(registry): no plugin, no call
\* made yet; the Registry is empty, or there is none (registry == nil)
NewPluginManager(hasRegistry) ==
    [plugins |-> [nm \in PluginNames |-> NoPlugin],
     hasRegistry |-> hasRegistry,
     registry |-> [ty \in PluginTypes |-> NoPlugin],
     n |-> 0, op |-> "", pl |-> NoPlugin, name |-> "", err |-> FALSE,
     got |-> NoPlugin, ok |-> FALSE]

NoPlug == NewPluginManager(FALSE)

\* the file-watch provider's Watch goroutine just started: no notification
\* waits in watcher.Events, nothing was handled, no event was sent
NoHandled == [path |-> [top |-> "", sub |-> "", file |-> "", json |-> FALSE],
              agent |-> 0, old |-> "", new |-> ""]

NoFsw == [pending |-> {}, events |-> <<>>, last |-> NoHandled, n |-> 0, op |-> ""]

\* history: no Manager.Refresh holds a snapshot: no id was put into the live
\* map since one was taken, no Discover of the opencode provider failed for it
NoHist == [new |-> {}, failed |-> FALSE]

\* NewRunner: the command is built and not started, done is open
NoRun == [running |-> FALSE, proc |-> "none", spc |-> "idle", wpc |-> "off",
          closes |-> 0, cancelled |-> FALSE, started |-> 0, failed |-> 0,
          op |-> "", ret |-> "", n |-> 0]

\* nothing outside the alert manager and the control operations was used
MoreIdle == outbuf = NoOut /\ db = NoDB /\ life = NoLife /\ ui = NoUI /\ plug = NoPlug /\ fsw = NoFsw /\ rhist = NoHist /\ runner = NoRun

\* ------------------------------------------- agent-level specification
InitAgent ==
    /\ impl \in Impls
    /\ now = 0
    /\ up = [s \in SessionIDs |-> NoSession]
    /\ writes = 0
    /\ heap = <<>>
    /\ index = NoIndex
    /\ disc = NoDisc
    /\ storePresent = TRUE
    /\ PipeIdle
    /\ AlertIdle
    /\ ApiIdle
    /\ MoreIdle

Tick ==
    /\ \E t \in Instants : t > now /\ now' = t
    /\ UNCHANGED <<pipeVars, apiVars, moreVars, alertVars, impl, up, writes, heap, index, disc>>

Upstream ==
    /\ \E s \in SessionIDs :
          \/ UpCreateSession(s)
          \/ UpTouchSession(s)
          \/ UpAddMessage(s)
          \/ \E m \in 1..MaxMsgs, st \in PartStates : UpAddPart(s, m, st)
          \/ \E m \in 1..MaxMsgs, k \in 1..MaxParts, st \in PartStates :
                UpSetPartState(s, m, k, st)
    /\ writes' = writes + 1
    /\ disc' = [disc EXCEPT !.fresh = FALSE]
    /\ UNCHANGED <<pipeVars, apiVars, moreVars, alertVars, impl, now, heap, index>>

\* Provider.Discover called on the provider
ProviderDiscover ==
    \E okIO \in BOOLEAN :
        LET r == Discover(impl, heap, index, now, okIO)
        IN /\ Len(r.heap) <= MaxInst
           /\ index' = r.index
           /\ heap' = Collect(r.heap, Indexed(r.index))
           /\ disc' = IF r.ok THEN Discovered(disc, r) ELSE disc
           /\ UNCHANGED <<pipeVars, apiVars, moreVars, alertVars, impl, now, up, writes>>

\* OpenCodeAgent.Refresh on an instance of the file-watch index
AgentRefresh(i) ==
    /\ impl = "fw"
    /\ i \in Indexed(index)
    /\ \E fail \in {"none", "session", "messages"} :
          heap' = [heap EXCEPT ![i] = Refresh(heap[i], now, fail)]
    /\ UNCHANGED <<pipeVars, apiVars, moreVars, alertVars, impl, now, up, writes, index, disc>>

\* Output() on a file-watch instance loads the history on first use
AgentOutput(i) ==
    /\ impl = "fw"
    /\ i \in Indexed(index)
    /\ ~heap[i].loaded
    /\ heap' = [heap EXCEPT ![i] = LoadFullHistory(heap[i], now)]
    /\ UNCHANGED <<pipeVars, apiVars, moreVars, alertVars, impl, now, up, writes, index, disc>>

\* Provider.Terminate(id): unknown ids return an error and change nothing
ProviderTerminate(s) ==
    /\ index[s] # 0
    /\ heap[index[s]].status # "cancelled"
    /\ heap' = [heap EXCEPT ![index[s]] = AgentTerminate(@)]
    /\ UNCHANGED <<pipeVars, apiVars, moreVars, alertVars, impl, now, up, writes, index, disc>>

NextAgent ==
    \/ Tick
    \/ Upstream
    \/ ProviderDiscover
    \/ \E i \in 1..MaxInst : AgentRefresh(i)
    \/ \E i \in 1..MaxInst : AgentOutput(i)
    \/ \E s \in SessionIDs : ProviderTerminate(s)

SpecAgent == InitAgent /\ [][NextAgent]_vars

\* ------------------------------------------ registry and manager: steps
watchVars == <<notif, wpc, wtodo, wevt>>
fwdVars   == <<fpc, fheld>>
mgrVars   == <<mpc, mcur, agents, store, trace>>
refVars   == <<rpc, rsnap>>
ctlVars   == <<storePresent, started, ctxDone, mockClosed, mergedClosed, termd>>
envVars   == <<impl, now, up, writes, disc>>

\* the heap after a step, with the instances nothing refers to freed
SetHeap(h) == heap' = Collect(h, LiveRefs' \cup Range(MockAgents(h)))

Init ==
    /\ impl \in Impls
    /\ now = 0
    /\ up = [s \in SessionIDs |-> NoSession]
    /\ writes = 0
    /\ heap = <<NewMockAgent("mock_1")>>
    /\ index = NoIndex
    /\ disc = NoDisc
    /\ storePresent = TRUE
    /\ PipeIdle
    /\ AlertIdle
    /\ ApiIdle
    /\ MoreIdle

\* Manager.Start: initial discovery into the live map and the Store, then
\* WatchAll (one watch goroutine and one forwarder per provider) and the
\* reconciliation task
Start ==
    /\ ~started
    /\ \E okIO \in BOOLEAN :
        LET r == DiscoverAll(heap, index, now, okIO)
        IN /\ Len(r.heap) <= MaxInst
           /\ index' = r.index
           /\ agents' = PutAll(agents, r.agents, r.heap)
           /\ store' = IF storePresent THEN SaveAll(store, r.agents, r.heap) ELSE store
           /\ started' = TRUE
           /\ wpc' = "select"
           /\ fpc' = [p \in Provs |-> "recv"]
           /\ mpc' = "recv"
           /\ UNCHANGED <<apiVars, moreVars, alertVars, envVars, storePresent, ctxDone, mockClosed,
                          mergedClosed, termd,
                          notif, wtodo, wevt, chan, emitted, fheld, merged,
                          mcur, trace, refVars>>
           /\ SetHeap(r.heap)

\* Manager.Stop / cancellation of the root scope
Stop ==
    /\ started
    /\ ~ctxDone
    /\ ctxDone' = TRUE
    /\ UNCHANGED <<apiVars, moreVars, alertVars, envVars, heap, index, storePresent, started, mockClosed,
                   mergedClosed, termd, watchVars, chan, emitted, fwdVars, merged, mgrVars,
                   refVars>>

PipeTick ==
    /\ \E t \in PipeInstants : t > now /\ now' = t
    /\ UNCHANGED <<apiVars, moreVars, alertVars, impl, up, writes, disc, heap, index, pipeVars>>

\* the runtime writes a session file; the file watcher may miss the change
PipeUpstream ==
    /\ writes < MaxPipeWrites
    /\ \E s \in PipeSessions : UpCreateSession(s) \/ UpTouchSession(s)
    /\ writes' = writes + 1
    /\ \E seen \in BOOLEAN :
          notif' = IF seen /\ impl = "fw" /\ wpc \notin {"off", "closed"}
                   THEN notif \cup {s \in PipeSessions : up'[s] # up[s]}
                   ELSE notif
    /\ UNCHANGED <<apiVars, moreVars, alertVars, impl, now, disc, heap, index, ctlVars, wpc, wtodo,
                   wevt, chan,
                   emitted, fwdVars, merged, mgrVars, refVars>>

Event(ty, i, src) ==
    [type |-> ty, id |-> heap[i].id, agent |-> i, src |-> src, seq |-> 0]

\* file-watch: the event type for a refresh that moved old to new
FwEventType(old, new) ==
    IF old = new THEN "updated"
    ELSE CASE new = "running" -> "started"
           [] new = "completed" -> "completed"
           [] new = "errored" -> "errored"
           [] OTHER -> "updated"

\* poll: the event type for an update that moved old to new
PollEventType(old, new) ==
    CASE old # "running" /\ new = "running" -> "started"
      [] old # "completed" /\ new = "completed" -> "completed"
      [] old # "errored" /\ new = "errored" -> "errored"
      [] OTHER -> "updated"

\* file-watch handleFileChange for a session file: a session not in the
\* index becomes a new instance and a discovered event, an indexed one is
\* refreshed and reported as updated
FwFileChange(s) ==
    /\ impl = "fw"
    /\ wpc = "select"
    /\ s \in notif
    /\ emitted["opencode"] < MaxEvents
    /\ up[s].exists
    /\ notif' = notif \ {s}
    /\ wpc' = "send"
    /\ IF index[s] = 0
       THEN /\ Len(heap) < MaxInst
            /\ index' = [index EXCEPT ![s] = Len(heap) + 1]
            /\ wevt' = [type |-> "discovered", id |-> s, agent |-> Len(heap) + 1,
                        src |-> "opencode", seq |-> 0]
            /\ UNCHANGED <<apiVars, moreVars, alertVars, envVars, ctlVars, wtodo, chan, emitted, fwdVars,
                           merged, mgrVars, refVars>>
            /\ SetHeap(Append(heap, NewOpenCodeAgent(s, now)))
       ELSE /\ wevt' = Event("updated", index[s], "opencode")
            /\ UNCHANGED <<apiVars, moreVars, alertVars, envVars, index, ctlVars, wtodo, chan, emitted,
                           fwdVars, merged, mgrVars, refVars>>
            /\ \E fail \in {"none", "session", "messages"} :
                  SetHeap([heap EXCEPT ![index[s]] = Refresh(@, now, fail)])

\* a periodic pass starts: refreshAll snapshots the index (file-watch),
\* pollForChanges lists the sessions and takes the index lock (poll)
WatchPass ==
    /\ wpc = "select"
    /\ wtodo' = IF impl = "fw"
                THEN LET ss == SeqOfSet({s \in SessionIDs : index[s] # 0})
                     IN [k \in 1..Len(ss) |-> index[ss[k]]]
                ELSE Kept(now)
    /\ wtodo' # <<>>
    /\ emitted["opencode"] + Len(wtodo') <= MaxEvents
    /\ wpc' = "visit"
    /\ UNCHANGED <<apiVars, moreVars, alertVars, envVars, heap, index, ctlVars, notif, wevt, chan, emitted,
                   fwdVars, merged, mgrVars, refVars>>

AfterVisit(rest) == IF rest = <<>> THEN "select" ELSE "visit"

\* one iteration of refreshAll
FwVisit ==
    /\ impl = "fw"
    /\ wpc = "visit"
    /\ LET i == Head(wtodo)
       IN \E fail \in {"none", "session", "messages"} :
           LET a == Refresh(heap[i], now, fail)
           IN /\ wtodo' = Tail(wtodo)
              /\ IF a.status # heap[i].status
                 THEN /\ wevt' = Event(FwEventType(heap[i].status, a.status),
                                       i, "opencode")
                      /\ wpc' = "send"
                 ELSE /\ wevt' = wevt
                      /\ wpc' = AfterVisit(Tail(wtodo))
              /\ UNCHANGED <<apiVars, moreVars, alertVars, envVars, index, ctlVars, notif, chan, emitted,
                             fwdVars, merged, mgrVars, refVars>>
              /\ SetHeap([heap EXCEPT ![i] = a])

\* one iteration of pollForChanges, the index lock held
PollVisit ==
    /\ impl = "poll"
    /\ wpc = "visit"
    /\ LET s == Head(wtodo)
           i == index[s]
       IN /\ wtodo' = Tail(wtodo)
          /\ IF i # 0
             THEN LET a == Update(heap[i], now)
                  IN /\ IF a.status # heap[i].status
                           \/ a.lastActivity # heap[i].lastActivity
                        THEN /\ wevt' = Event(PollEventType(heap[i].status, a.status),
                                              i, "opencode")
                             /\ wpc' = "send"
                        ELSE /\ wevt' = wevt
                             /\ wpc' = AfterVisit(Tail(wtodo))
                     /\ UNCHANGED <<apiVars, moreVars, alertVars, envVars, index, ctlVars, notif, chan, emitted,
                                    fwdVars, merged, mgrVars, refVars>>
                     /\ SetHeap([heap EXCEPT ![i] = a])
             ELSE /\ Len(heap) < MaxInst
                  /\ index' = [index EXCEPT ![s] = Len(heap) + 1]
                  /\ wevt' = [type |-> "discovered", id |-> s,
                              agent |-> Len(heap) + 1, src |-> "opencode",
                              seq |-> 0]
                  /\ wpc' = "send"
                  /\ UNCHANGED <<apiVars, moreVars, alertVars, envVars, ctlVars, notif, chan, emitted, fwdVars,
                                 merged, mgrVars, refVars>>
                  /\ SetHeap(Append(heap, NewOpenCodeAgentFromCLI(s, now)))

\* events <- agent.Event{...}: blocks while the watch channel is full
WatchSend ==
    /\ wpc = "send"
    /\ Len(chan["opencode"]) < ChanCap
    /\ emitted' = [emitted EXCEPT !["opencode"] = @ + 1]
    /\ chan' = [chan EXCEPT !["opencode"] =
                  ChanSend(@, [wevt EXCEPT !.seq = emitted'["opencode"]])]
    /\ wevt' = NoEvent
    /\ wpc' = AfterVisit(wtodo)
    /\ UNCHANGED <<apiVars, moreVars, alertVars, envVars, heap, index, ctlVars, notif, wtodo, fwdVars, merged,
                   mgrVars, refVars>>

\* case <-ctx.Done(): return, with the deferred close(events)
WatchReturn ==
    /\ wpc = "select"
    /\ ctxDone
    /\ wpc' = "closed"
    /\ UNCHANGED <<apiVars, moreVars, alertVars, envVars, heap, index, ctlVars, notif, wtodo, wevt, chan,
                   emitted, fwdVars, merged, mgrVars, refVars>>

\* MockProvider.Close, called by the owner of the provider after Stop
MockClose ==
    /\ ctxDone
    /\ ~mockClosed
    /\ mockClosed' = TRUE
    /\ UNCHANGED <<apiVars, moreVars, alertVars, envVars, heap, index, storePresent, started, ctxDone,
                   mergedClosed, termd, watchVars, chan, emitted, fwdVars,
                   merged, mgrVars, refVars>>

\* MockProvider.SendEvent
MockSendEvent ==
    /\ started
    /\ emitted["mock"] < MaxMockEvents
    /\ Len(chan["mock"]) < ChanCap
    /\ ~mockClosed
    /\ \E ty \in MockEventTypes, i \in Range(MockAgents(heap)) :
          /\ emitted' = [emitted EXCEPT !["mock"] = @ + 1]
          /\ chan' = [chan EXCEPT !["mock"] =
                ChanSend(@, [type |-> ty, id |-> "mock_1", agent |-> i,
                             src |-> "mock", seq |-> emitted'["mock"]])]
    /\ UNCHANGED <<apiVars, moreVars, alertVars, envVars, heap, index, ctlVars, watchVars, fwdVars, merged,
                   mgrVars, refVars>>

\* the provider's watch channel is closed
Closed(p) == IF p = "opencode" THEN wpc = "closed" ELSE mockClosed

\* forwarder of WatchAll: for event := range ch
FwdRecv(p) ==
    /\ fpc[p] = "recv"
    /\ chan[p] # <<>>
    /\ fheld' = [fheld EXCEPT ![p] = ChanRecv(chan[p]).val]
    /\ chan' = [chan EXCEPT ![p] = ChanRecv(chan[p]).rest]
    /\ fpc' = [fpc EXCEPT ![p] = "send"]
    /\ UNCHANGED <<apiVars, moreVars, alertVars, envVars, heap, index, ctlVars, watchVars, emitted, merged,
                   mgrVars, refVars>>

\* the range loop ends when the watch channel is closed and empty
FwdEnd(p) ==
    /\ fpc[p] = "recv"
    /\ chan[p] = <<>>
    /\ Closed(p)
    /\ fpc' = [fpc EXCEPT ![p] = "done"]
    /\ UNCHANGED <<apiVars, moreVars, alertVars, envVars, heap, index, ctlVars, watchVars, chan, emitted,
                   fheld, merged, mgrVars, refVars>>

\* case merged <- event
FwdSend(p) ==
    /\ fpc[p] = "send"
    /\ Len(merged) < MergedCap
    /\ merged' = ChanSend(merged, fheld[p])
    /\ fheld' = [fheld EXCEPT ![p] = NoEvent]
    /\ fpc' = [fpc EXCEPT ![p] = "recv"]
    /\ UNCHANGED <<apiVars, moreVars, alertVars, envVars, heap, index, ctlVars, watchVars, chan, emitted,
                   mgrVars, refVars>>

\* case <-ctx.Done(): return; the event taken from the watch channel is gone
FwdCancel(p) ==
    /\ fpc[p] = "send"
    /\ ctxDone
    /\ fheld' = [fheld EXCEPT ![p] = NoEvent]
    /\ fpc' = [fpc EXCEPT ![p] = "done"]
    /\ UNCHANGED <<apiVars, moreVars, alertVars, envVars, index, ctlVars, watchVars, chan, emitted, merged,
                   mgrVars, refVars>>
    /\ SetHeap(heap)

\* a switch whose discovered case inserts only
handleEventInsertOnly(m, e) ==
    IF e.type = "terminated" THEN [m EXCEPT ![e.id] = 0]
    ELSE IF e.agent = 0 \/ (e.type = "discovered" /\ m[e.id] # 0) THEN m
    ELSE [m EXCEPT ![e.id] = e.agent]

\* handleEvent, the live-map switch
handleEventMap(m, e) ==
    IF e.type = "discovered"
    THEN IF e.agent # 0 THEN [m EXCEPT ![e.id] = e.agent] ELSE m
    ELSE IF e.type = "terminated" THEN [m EXCEPT ![e.id] = 0]
    ELSE IF e.agent # 0 THEN [m EXCEPT ![e.id] = e.agent] ELSE m

\* the Alert Manager told before the Store
HandleStepsAlertFirst(e) ==
    <<"map", "alert">> \o (IF storePresent /\ e.agent # 0 THEN <<"store">> ELSE <<>>)
                       \o <<"callback">>

\* the statements of handleEvent that run for event e, in program order
HandleSteps(e) ==
    <<"map">> \o (IF storePresent /\ e.agent # 0 THEN <<"store">> ELSE <<>>)
              \o <<"alert", "callback">>

\* the statement after step pc of handleEvent, "recv" after the last one
NextStep(pc, e) ==
    LET ss == HandleSteps(e)
        k  == CHOOSE j \in 1..Len(ss) : ss[j] = pc
    IN IF k = Len(ss) THEN "recv" ELSE ss[k + 1]

\* the log of handleEvent's statements: which statement ran for which event
Logged(step, e) ==
    Append(trace, [step |-> step, src |-> e.src, seq |-> e.seq, id |-> e.id,
                   snap |-> e.agent # 0])

\* history: the ids that a discovered event put into the live map, and no
\* terminated event took out again, while Manager.Refresh holds a snapshot
\* and has not taken m.mu yet
SinceSnapshot(hs, pc, e) ==
    IF pc # "apply" THEN hs
    ELSE IF e.type = "discovered" /\ e.agent # 0 THEN [hs EXCEPT !.new = @ \cup {e.id}]
    ELSE IF e.type = "terminated" THEN [hs EXCEPT !.new = @ \ {e.id}]
    ELSE hs

\* handleEvent(e) is entered: the live map is updated under m.mu
HandleEvent(e) ==
    /\ mcur' = e
    /\ agents' = handleEventMap(agents, e)
    /\ trace' = Logged("map", e)
    /\ mpc' = NextStep("map", e)
    /\ rhist' = SinceSnapshot(rhist, rpc, e)

\* processEvents receives an event and handleEvent updates the live map
MgrRecv ==
    /\ mpc = "recv"
    /\ merged # <<>>
    /\ merged' = ChanRecv(merged).rest
    /\ HandleEvent(ChanRecv(merged).val)
    /\ UNCHANGED <<apiVars, moreRest, alertVars, envVars, index, ctlVars, watchVars, chan, emitted, fwdVars,
                   store, refVars>>
    /\ SetHeap(heap)

\* processEvents: case <-ctx.Done(): return
MgrReturn ==
    /\ mpc = "recv"
    /\ ctxDone
    /\ mpc' = "done"
    /\ UNCHANGED <<apiVars, moreVars, alertVars, envVars, heap, index, ctlVars, watchVars, chan, emitted,
                   fwdVars, merged, mcur, agents, store, trace, refVars>>

\* handleEvent: m.store.SaveSession with the agent's status as read now
MgrStore ==
    /\ mpc = "store"
    /\ store' = [store EXCEPT ![heap[mcur.agent].id] = heap[mcur.agent].status]
    /\ trace' = Logged("store", mcur)
    /\ mpc' = NextStep("store", mcur)
    /\ UNCHANGED <<apiVars, moreVars, alertVars, envVars, heap, index, ctlVars, watchVars, chan, emitted,
                   fwdVars, merged, mcur, agents, refVars>>

\* handleEvent: m.alertMgr.SendAgentEvent
MgrAlert ==
    /\ mpc = "alert"
    /\ trace' = Logged("alert", mcur)
    /\ mpc' = NextStep("alert", mcur)
    /\ UNCHANGED <<apiVars, moreVars, alertVars, envVars, heap, index, ctlVars, watchVars, chan, emitted,
                   fwdVars, merged, mcur, agents, store, refVars>>

\* handleEvent: m.onEvent(event)
MgrCallback ==
    /\ mpc = "callback"
    /\ trace' = Logged("callback", mcur)
    /\ mpc' = NextStep("callback", mcur)
    /\ mcur' = NoEvent
    /\ UNCHANGED <<apiVars, moreVars, alertVars, envVars, index, ctlVars, watchVars, chan, emitted, fwdVars,
                   merged, agents, store, refVars>>
    /\ SetHeap(heap)

\* Manager.Terminate(id): unknown ids are a no-op
MgrTerminate(id) ==
    /\ agents[id] # 0
    /\ heap[agents[id]].status # "cancelled"
    /\ heap' = [heap EXCEPT ![agents[id]] = AgentTerminate(@)]
    /\ termd' = [termd EXCEPT ![id] = agents[id]]
    /\ UNCHANGED <<apiVars, moreVars, alertVars, envVars, index, storePresent, started, ctxDone, mockClosed,
                   mergedClosed,
                   watchVars, chan, emitted, fwdVars, merged, mgrVars, refVars>>

\* Manager.Refresh, first half: DiscoverAll (the poll provider's Discover
\* waits for the index lock a poll pass holds)
MgrRefreshDiscover ==
    /\ started
    /\ rpc = "idle"
    /\ ~(impl = "poll" /\ wpc \in {"visit", "send"})
    /\ \E okIO \in BOOLEAN :
        LET r == DiscoverAll(heap, index, now, okIO)
        IN /\ Len(r.heap) <= MaxInst
           /\ index' = r.index
           /\ rsnap' = r.agents
           /\ rpc' = "apply"
           /\ rhist' = [new |-> {}, failed |-> ~okIO]
           /\ UNCHANGED <<apiVars, moreRest, alertVars, envVars, ctlVars, watchVars, chan, emitted, fwdVars,
                          merged, mgrVars>>
           /\ SetHeap(r.heap)

\* a reconciliation that evicts nothing
RefreshNoEvict(m, as, h) == PutAll(m, as, h)

\* Manager.Refresh under m.mu: returned agents overwrite, the rest is evicted
RefreshApply(m, as, h) ==
    LET m1 == PutAll(m, as, h)
        seen == {h[i].id : i \in Range(as)}
    IN [id \in AgentIDs |-> IF id \in seen THEN m1[id] ELSE 0]

MgrRefreshApply ==
    /\ rpc = "apply"
    /\ agents' = RefreshApply(agents, rsnap, heap)
    /\ rpc' = "idle"
    /\ rsnap' = <<>>
    /\ rhist' = NoHist
    /\ UNCHANGED <<apiVars, moreRest, alertVars, envVars, index, ctlVars, watchVars, chan, emitted, fwdVars,
                   merged, mpc, mcur, store, trace>>
    /\ SetHeap(heap)

\* the fan-in under cancellation: both providers, the forwarders and the
\* reconciliation task, from Start to after Stop
Next ==
    \/ Start
    \/ Stop
    \/ PipeTick
    \/ PipeUpstream
    \/ \E s \in PipeSessions : FwFileChange(s)
    \/ WatchPass
    \/ FwVisit
    \/ PollVisit
    \/ WatchSend
    \/ WatchReturn
    \/ MockSendEvent
    \/ MockClose
    \/ \E p \in Provs : FwdRecv(p)
    \/ \E p \in Provs : FwdEnd(p)
    \/ \E p \in Provs : FwdSend(p)
    \/ \E p \in Provs : FwdCancel(p)
    \/ MgrRecv
    \/ MgrReturn
    \/ MgrStore
    \/ MgrAlert
    \/ MgrCallback

Spec == Init /\ [][Next]_vars

\* the running manager, the caller's Terminate racing the opencode
\* provider's events
NextTerminate ==
    \/ Start
    \/ PipeTick
    \/ PipeUpstream
    \/ \E s \in PipeSessions : FwFileChange(s)
    \/ WatchPass
    \/ FwVisit
    \/ PollVisit
    \/ WatchSend
    \/ \E p \in Provs : FwdRecv(p)
    \/ \E p \in Provs : FwdSend(p)
    \/ MgrRecv
    \/ MgrStore
    \/ MgrAlert
    \/ MgrCallback
    \/ \E id \in AgentIDs : MgrTerminate(id)

SpecTerminate == Init /\ [][NextTerminate]_vars

\* the running manager, the caller's Refresh racing the opencode provider's
\* events
NextRefresh ==
    \/ Start
    \/ PipeTick
    \/ PipeUpstream
    \/ \E s \in PipeSessions : FwFileChange(s)
    \/ WatchPass
    \/ FwVisit
    \/ PollVisit
    \/ WatchSend
    \/ \E p \in Provs : FwdRecv(p)
    \/ \E p \in Provs : FwdSend(p)
    \/ MgrRecv
    \/ MgrStore
    \/ MgrAlert
    \/ MgrCallback
    \/ MgrRefreshDiscover
    \/ MgrRefreshApply

SpecRefresh == Init /\ [][NextRefresh]_vars

\* ------------------------------------------- handleEvent called directly
\* a Manager that was not started, with or without a Store, and three mock
\* agents, two of them with the same id
InitEvents ==
    /\ impl = "fw"
    /\ now = 0
    /\ up = [s \in SessionIDs |-> NoSession]
    /\ writes = 0
    /\ heap = <<NewMockAgent("mock_1"),
                [NewMockAgent("mock_1") EXCEPT !.status = "idle"],
                NewMockAgent("ses_A")>>
    /\ index = NoIndex
    /\ disc = NoDisc
    /\ storePresent \in BOOLEAN
    /\ PipeIdle
    /\ AlertIdle
    /\ ApiIdle
    /\ MoreIdle

\* m.handleEvent(agent.Event{Type: ty, AgentID: id, Agent: i})
HandleDirect(ty, id, i) ==
    /\ mpc \in {"off", "recv"}
    /\ emitted["opencode"] < MaxEvents
    /\ i # 0 => heap[i].id = id
    /\ emitted' = [emitted EXCEPT !["opencode"] = @ + 1]
    /\ HandleEvent([type |-> ty, id |-> id, agent |-> i, src |-> "opencode",
                    seq |-> emitted'["opencode"]])
    /\ UNCHANGED <<apiVars, moreRest, alertVars, envVars, heap, index, ctlVars, watchVars, chan, fwdVars,
                   merged, store, refVars>>

NextEvents ==
    \/ \E ty \in EventTypes, id \in {"mock_1", "ses_A"}, i \in 0..3 :
          HandleDirect(ty, id, i)
    \/ MgrStore
    \/ MgrAlert
    \/ MgrCallback

SpecEvents == InitEvents /\ [][NextEvents]_vars

\* ------------------------------------------------------ manager queries
Statuses == {"pending", "running", "idle", "completed", "errored",
             "context_limit", "cancelled"}

\* Manager.List: the agents of the live map
List(m) ==
    LET ids == SeqOfSet({id \in AgentIDs : m[id] # 0})
    IN [k \in 1..Len(ids) |-> m[ids[k]]]

\* a Stats that counts agents by status only while they are not cancelled
StatsSkipCancelled(m, h) ==
    [Total    |-> Cardinality({id \in AgentIDs : m[id] # 0}),
     ByStatus |-> [st \in Statuses |->
                     IF st = "cancelled" THEN 0
                     ELSE Cardinality({id \in AgentIDs :
                                          m[id] # 0 /\ h[m[id]].status = st})]]

RECURSIVE StatsLoop(_, _, _)
\* for _, a := range m.agents { stats.ByStatus[a.Status()]++ }
StatsLoop(as, h, by) ==
    IF as = <<>> THEN by
    ELSE StatsLoop(Tail(as), h, [by EXCEPT ![h[Head(as)].status] = @ + 1])

\* Manager.Stats: Total is len(m.agents), ByStatus is filled by the loop
Stats(m, h) ==
    [Total    |-> Cardinality({id \in AgentIDs : m[id] # 0}),
     ByStatus |-> StatsLoop(List(m), h, [st \in Statuses |-> 0])]

RECURSIVE SumBy(_, _)
\* the sum of the counts of a by-status table over the statuses in S
SumBy(by, S) ==
    IF S = {} THEN 0
    ELSE LET st == CHOOSE x \in S : TRUE IN by[st] + SumBy(by, S \ {st})

\* ------------------------------------------------- alert manager: steps
Levels == {"info", "warning", "error", "success"}

\* the channels NewManager can configure, in the order it appends them
ChannelKinds == <<"desktop", "slack", "discord">>

\* NewManager(cfg): cfg is the set of channels the configuration enables
NewAlertManager(cfg) == SelectSeq(ChannelKinds, LAMBDA c : c \in cfg)

\* the configurations tried: no channel enabled, all channels enabled
AlertConfigs == {{}, Range(ChannelKinds)}

\* alert.ID == ""
NoID == <<>>

\* fmt.Sprintf("alert-%d", time.Now().UnixNano()) with the clock reading t
GenID(t) == <<"alert", t>>

\* ids a caller sets itself before Send
PresetIDs == {<<"custom", 1>>}

\* a ring that keeps the oldest alerts and refuses the new one
TrimNewest(as) == IF Len(as) > RingCap THEN SubSeq(as, 1, RingCap) ELSE as

\* Send: keep only the last RingCap alerts
Trim(as) ==
    IF Len(as) > RingCap THEN SubSeq(as, Len(as) - RingCap + 1, Len(as)) ELSE as

RECURSIVE SendStopAtFailure(_, _, _)
\* a channel loop that returns at the first failing channel
SendStopAtFailure(chs, fails, acc) ==
    IF chs = <<>> THEN acc
    ELSE IF Head(chs) \in fails
         THEN [sent |-> Append(acc.sent, Head(chs)), ret |-> Head(chs)]
         ELSE SendStopAtFailure(Tail(chs), fails,
                 [sent |-> Append(acc.sent, Head(chs)), ret |-> acc.ret])

RECURSIVE SendChannels(_, _, _)
\* Send: the loop over m.channels; fails is the set of channels whose send
\* returns an error, an error being named after its channel ("" = nil)
SendChannels(chs, fails, acc) ==
    IF chs = <<>> THEN acc
    ELSE SendChannels(Tail(chs), fails,
            [sent |-> Append(acc.sent, Head(chs)),
             ret  |-> IF Head(chs) \in fails THEN Head(chs) ELSE acc.ret])

\* a classification that also alerts on terminated events
ClassifyTerminated(ty) ==
    CASE ty = "errored" -> "error"
      [] ty = "completed" -> "success"
      [] ty = "context_limit" -> "warning"
      [] ty = "terminated" -> "info"
      [] OTHER -> ""

\* SendAgentEvent: the level of the alert for an event type ("" = no alert)
Classify(ty) ==
    CASE ty = "errored" -> "error"
      [] ty = "completed" -> "success"
      [] ty = "context_limit" -> "warning"
      [] OTHER -> ""

RECURSIVE MarkFirst(_, _)
\* MarkRead: the first alert of the ring with this id becomes read
MarkFirst(as, id) ==
    IF as = <<>> THEN <<>>
    ELSE IF Head(as).id = id THEN <<[Head(as) EXCEPT !.read = TRUE]>> \o Tail(as)
    ELSE <<Head(as)>> \o MarkFirst(Tail(as), id)

\* MarkAllRead
MarkAll(as) == [k \in 1..Len(as) |-> [as[k] EXCEPT !.read = TRUE]]

RECURSIVE UnreadCount(_)
\* UnreadCount: the loop that counts the alerts with Read == false
UnreadCount(as) ==
    IF as = <<>> THEN 0
    ELSE (IF Head(as).read THEN 0 ELSE 1) + UnreadCount(Tail(as))

\* Manager.Send(alert) called as op with argument arg
DoSend(op, arg, a, fails) ==
    LET id == IF a.id = NoID THEN GenID(nanos) ELSE a.id
        r  == SendChannels(channels, fails, [sent |-> <<>>, ret |-> ""])
    IN /\ alerts' = Trim(Append(alerts, [id |-> id, level |-> a.level,
                                         read |-> FALSE]))
       /\ accepted' = Append(accepted, id)
       /\ aop' = [n |-> aop.n + 1, op |-> op, arg |-> arg, id |-> id,
                  made |-> TRUE, failed |-> fails, sent |-> r.sent,
                  ret |-> r.ret]

otherVars == <<agentVars, pipeVars, apiVars, moreVars>>

InitAlert ==
    /\ impl = "fw"
    /\ now = 0
    /\ up = [s \in SessionIDs |-> NoSession]
    /\ writes = 0
    /\ heap = <<>>
    /\ index = NoIndex
    /\ disc = NoDisc
    /\ storePresent = FALSE
    /\ PipeIdle
    /\ channels \in {NewAlertManager(cfg) : cfg \in AlertConfigs}
    /\ alerts = <<>>
    /\ nanos = 0
    /\ accepted = <<>>
    /\ aop = NoCall
    /\ ApiIdle
    /\ MoreIdle

\* the nanosecond clock gives a later reading
AlertTick ==
    /\ nanos < MaxNanos
    /\ nanos' = nanos + 1
    /\ UNCHANGED <<otherVars, channels, alerts, accepted, aop>>

\* Manager.Send with or without a preset id
AlertSend ==
    /\ aop.n < MaxAlertOps
    /\ \E id \in PresetIDs \cup {NoID}, fails \in SUBSET Range(channels) :
          DoSend("Send", "", [id |-> id, level |-> "info"], fails)
    /\ UNCHANGED <<otherVars, channels, nanos>>

\* Manager.SendAgentEvent
AlertSendAgentEvent ==
    /\ aop.n < MaxAlertOps
    /\ \E ty \in EventTypes, fails \in SUBSET Range(channels) :
          IF Classify(ty) = ""
          THEN /\ fails = {}
               /\ aop' = [n |-> aop.n + 1, op |-> "SendAgentEvent", arg |-> ty,
                          id |-> NoID, made |-> FALSE, failed |-> {},
                          sent |-> <<>>, ret |-> ""]
               /\ UNCHANGED <<alerts, accepted>>
          ELSE DoSend("SendAgentEvent", ty,
                      [id |-> NoID, level |-> Classify(ty)], fails)
    /\ UNCHANGED <<otherVars, channels, nanos>>

\* Manager.MarkRead(id), the id being one Send accepted or an unknown one
AlertMarkRead ==
    /\ aop.n < MaxAlertOps
    /\ \E id \in Range(accepted) \cup {<<"custom", 0>>} :
          /\ alerts' = MarkFirst(alerts, id)
          /\ aop' = [n |-> aop.n + 1, op |-> "MarkRead", arg |-> "", id |-> id,
                     made |-> FALSE, failed |-> {}, sent |-> <<>>, ret |-> ""]
    /\ UNCHANGED <<otherVars, channels, nanos, accepted>>

\* Manager.MarkAllRead
AlertMarkAllRead ==
    /\ aop.n < MaxAlertOps
    /\ alerts' = MarkAll(alerts)
    /\ aop' = [n |-> aop.n + 1, op |-> "MarkAllRead", arg |-> "", id |-> NoID,
               made |-> FALSE, failed |-> {}, sent |-> <<>>, ret |-> ""]
    /\ UNCHANGED <<otherVars, channels, nanos, accepted>>

NextAlert ==
    \/ AlertTick
    \/ AlertSend
    \/ AlertSendAgentEvent
    \/ AlertMarkRead
    \/ AlertMarkAllRead

SpecAlert == InitAlert /\ [][NextAlert]_vars

\* ------------------------------- control operations, called on a Manager
\* that was not started
MaxApiOps == 3      \* control operations called in one behaviour
MaxApiInst == 4     \* agent instances allocated in one behaviour
MaxApiWrites == 2   \* upstream writes in one behaviour

\* the input texts passed to SendInput
Texts == {"", "hi"}

\* SpawnConfig.Type: the two provider types and one that no provider has
SpawnTypes == Provs \cup {"claude"}

\* SpawnConfig.Name
SpawnNames == {"spawn"}

\* the registries a Manager is built with, in registration order
Registries == {<<>>, <<"opencode">>, <<"mock">>, <<"opencode", "mock">>,
               <<"mock", "opencode">>}

\* Registry.List: the providers in the iteration order of the Go map, which
\* is any order
RegistryList(reg) ==
    {l \in [1..Len(reg) -> Range(reg)] : Range(l) = Range(reg)}

\* the provider Manager.Spawn goes on with: the one registered under ty,
\* else element 0 of Registry.List(); the empty set when that index is out of
\* range
SpawnProviders(reg, ty) ==
    IF ty \in Range(reg) THEN {ty}
    ELSE {l[1] : l \in {m \in RegistryList(reg) : Len(m) > 0}}

\* MockProvider.Spawn names the agent after the configuration
SpawnedID(name) == name \o "-id"

\* the agent Provider.Spawn returns: the first of the discovered agents
\* with the latest StartTime (0 = none)
Newest(h, as) ==
    IF as = <<>> THEN 0
    ELSE as[CHOOSE k \in 1..Len(as) :
            /\ \A j \in 1..Len(as) : h[as[j]].startTime <= h[as[k]].startTime
            /\ \A j \in 1..(k - 1) : h[as[j]].startTime < h[as[k]].startTime]

\* what Agent.SendInput may return: the MockAgent records the input and
\* returns nil, the OpenCodeAgent refuses empty input and otherwise returns
\* what `opencode run -s` gives
SendInputResults(a, text) ==
    IF a.kind = "mock" THEN {"ok"}
    ELSE IF text = "" THEN {"error"}
    ELSE {"ok", "error"}

\* a Manager that answers an unknown id with an error
ManagerReturnNotFound(found, res) == IF found THEN res ELSE "error"

\* Manager.Terminate / Manager.SendInput: nil for an unknown id, else what
\* the agent returned
ManagerReturn(found, res) == IF found THEN res ELSE "ok"

\* a provider that answers an absent id with nil
ProviderReturnNil(found, res) == IF found THEN res ELSE "ok"

\* Provider.Get / Terminate / SendInput: "agent not found" for an absent
\* id, else what the agent returned
ProviderReturn(found, res) == IF found THEN res ELSE "error"

\* Provider.agents[id], 0 when the id is absent
ProviderLookup(ix, id) == IF id \in DOMAIN ix THEN ix[id] ELSE 0

\* a control operation may be called: none is in progress, the process is
\* up, and the budget is not used up
CanCall == api.pc = "done" /\ api.ret # "panic" /\ api.n < MaxApiOps

\* the record of a call that begins
ApiCall(op, prov, id, text) ==
    [n |-> api.n + 1, op |-> op, pc |-> "done", prov |-> prov, id |-> id,
     text |-> text, target |-> 0, res |-> "", ret |-> "", agent |-> 0]

apiRest == <<moreVars, alertVars, envVars, ctlVars, watchVars, chan, emitted, fwdVars, merged,
             mgrVars, refVars, plug, fsw, rhist, runner>>

InitApi ==
    /\ impl \in Impls
    /\ now = 0
    /\ up = [s \in SessionIDs |-> NoSession]
    /\ writes = 0
    /\ heap = <<>>
    /\ index = NoIndex
    /\ disc = NoDisc
    /\ storePresent = FALSE
    /\ PipeIdle
    /\ AlertIdle
    /\ registry \in Registries
    /\ api = NoApi
    /\ MoreIdle

\* the runtime creates a session or rewrites a session file
ApiUpstream ==
    /\ writes < MaxApiWrites
    /\ \E s \in SessionIDs : UpCreateSession(s) \/ UpTouchSession(s)
    /\ writes' = writes + 1
    /\ UNCHANGED <<pipeVars, apiVars, moreVars, alertVars, impl, now, heap, index, disc>>

\* Manager.Terminate(id)
ManagerTerminate(id) ==
    /\ CanCall
    /\ LET i == agents[id]
       IN /\ api' = [ApiCall("Terminate", "manager", id, "") EXCEPT
                        !.target = i,
                        !.res = IF i # 0 THEN "ok" ELSE "",
                        !.ret = ManagerReturn(i # 0, "ok")]
          /\ heap' = IF i # 0 THEN [heap EXCEPT ![i] = AgentTerminate(@)] ELSE heap
    /\ UNCHANGED <<registry, index, apiRest>>

\* Manager.SendInput(id, text)
ManagerSendInput(id, text) ==
    /\ CanCall
    /\ LET i == agents[id]
       IN \E res \in (IF i # 0 THEN SendInputResults(heap[i], text) ELSE {""}) :
             api' = [ApiCall("SendInput", "manager", id, text) EXCEPT
                        !.target = i, !.res = res,
                        !.ret = ManagerReturn(i # 0, res)]
    /\ UNCHANGED <<registry, heap, index, apiRest>>

\* Manager.Spawn(config) up to the return of MockProvider.Spawn, or up to
\* the sleep of the opencode provider's Spawn
ManagerSpawn(ty, name) ==
    /\ CanCall
    /\ IF SpawnProviders(registry, ty) = {}
       THEN \* index out of range: the process panics
            /\ api' = [ApiCall("Spawn", "", "", "") EXCEPT !.ret = "panic"]
            /\ UNCHANGED <<heap, agents>>
       ELSE \E p \in SpawnProviders(registry, ty) :
               IF p = "mock"
               THEN /\ Len(heap) < MaxApiInst
                    /\ agents' = [agents EXCEPT ![SpawnedID(name)] = Len(heap) + 1]
                    /\ api' = [ApiCall("Spawn", p, SpawnedID(name), ty) EXCEPT
                                  !.ret = "ok", !.agent = Len(heap) + 1]
                    /\ heap' = Append(heap, NewMockAgent(SpawnedID(name)))
               ELSE \E ran \in BOOLEAN :
                       /\ api' = [ApiCall("Spawn", p, "", ty) EXCEPT
                                     !.pc = IF ran THEN "sleep" ELSE "done",
                                     !.ret = IF ran THEN "" ELSE "error"]
                       /\ UNCHANGED <<heap, agents>>
    /\ UNCHANGED <<registry, index, moreVars, alertVars, envVars, ctlVars, watchVars, chan,
                   emitted, fwdVars, merged, mpc, mcur, store, trace, refVars>>

\* the rest of the opencode provider's Spawn and of Manager.Spawn: Discover,
\* the newest agent, the insert into the live map
SpawnDiscover ==
    /\ api.pc = "sleep"
    /\ \E okIO \in BOOLEAN :
          LET r == Discover(impl, heap, index, now, okIO)
              a == IF r.ok THEN Newest(r.heap, r.agents) ELSE 0
          IN /\ Len(r.heap) <= MaxApiInst
             /\ index' = r.index
             /\ IF a # 0
                THEN /\ agents' = [agents EXCEPT ![r.heap[a].id] = a]
                     /\ api' = [api EXCEPT !.pc = "done", !.ret = "ok",
                                           !.id = r.heap[a].id, !.agent = a]
                ELSE /\ agents' = agents
                     /\ api' = [api EXCEPT !.pc = "done", !.ret = "error"]
             /\ UNCHANGED <<registry, moreVars, alertVars, envVars, ctlVars, watchVars, chan,
                            emitted, fwdVars, merged, mpc, mcur, store, trace, refVars>>
             /\ SetHeap(r.heap)

\* Provider.Get(id) on the opencode provider
ProviderGetCall(id) ==
    /\ CanCall
    /\ LET i == ProviderLookup(index, id)
       IN api' = [ApiCall("Get", "opencode", id, "") EXCEPT
                     !.ret = ProviderReturn(i # 0, "ok"), !.agent = i]
    /\ UNCHANGED <<registry, heap, index, apiRest>>

\* Provider.Terminate(id) on the opencode provider
ProviderTerminateCall(id) ==
    /\ CanCall
    /\ LET i == ProviderLookup(index, id)
       IN /\ api' = [ApiCall("Terminate", "opencode", id, "") EXCEPT
                        !.target = i,
                        !.res = IF i # 0 THEN "ok" ELSE "",
                        !.ret = ProviderReturn(i # 0, "ok")]
          /\ heap' = IF i # 0 THEN [heap EXCEPT ![i] = AgentTerminate(@)] ELSE heap
    /\ UNCHANGED <<registry, index, apiRest>>

\* Provider.SendInput(id, text) on the opencode provider
ProviderSendInputCall(id, text) ==
    /\ CanCall
    /\ LET i == ProviderLookup(index, id)
       IN \E res \in (IF i # 0 THEN SendInputResults(heap[i], text) ELSE {""}) :
             api' = [ApiCall("SendInput", "opencode", id, text) EXCEPT
                        !.target = i, !.res = res,
                        !.ret = ProviderReturn(i # 0, res)]
    /\ UNCHANGED <<registry, heap, index, apiRest>>

NextApi ==
    \/ PipeTick
    \/ ApiUpstream
    \/ \E id \in AgentIDs : ManagerTerminate(id)
    \/ \E id \in AgentIDs, text \in Texts : ManagerSendInput(id, text)
    \/ \E ty \in SpawnTypes, name \in SpawnNames : ManagerSpawn(ty, name)
    \/ SpawnDiscover
    \/ \E id \in AgentIDs : ProviderGetCall(id)
    \/ \E id \in AgentIDs : ProviderTerminateCall(id)
    \/ \E id \in AgentIDs, text \in Texts : ProviderSendInputCall(id, text)

SpecApi == InitApi /\ [][NextApi]_vars

\* ------------------------------------ output buffer of a file-watch agent
MaxTexts == 2       \* text parts of the session
BufCap == 1         \* texts the first array of a bytes.Buffer holds (64 bytes in the program)

\* the texts a part file may hold
Toks == {"a", "b"}

\* the bytes of the buffer: the first len elements of its array
BufBytes(o) ==
    IF o.buf.arr = 0 THEN <<>> ELSE SubSeq(o.arrays[o.buf.arr], 1, o.buf.len)

\* bytes.Buffer.WriteString of one text: in place while the array has room,
\* else into a new, larger array that starts with a copy of the bytes
BufWrite(o, tok) ==
    IF o.buf.arr # 0 /\ o.buf.len < Len(o.arrays[o.buf.arr])
    THEN [o EXCEPT !.arrays[o.buf.arr][o.buf.len + 1] = tok, !.buf.len = @ + 1]
    ELSE LET c   == IF o.buf.arr = 0 THEN BufCap
                    ELSE 2 * Len(o.arrays[o.buf.arr]) + 1
             old == BufBytes(o)
             new == [k \in 1..c |-> IF k <= Len(old) THEN old[k]
                                    ELSE IF k = Len(old) + 1 THEN tok ELSE ""]
         IN [o EXCEPT !.arrays = Append(@, new),
                      !.buf = [arr |-> Len(o.arrays) + 1, len |-> Len(old) + 1]]

RECURSIVE WriteTexts(_, _)
\* loadParts: every text part is written to the buffer
WriteTexts(o, ts) ==
    IF ts = <<>> THEN o ELSE WriteTexts(BufWrite(o, Head(ts)), Tail(ts))

\* bytes.Buffer.Reset: the length is 0, the array stays
BufReset(o) == [o EXCEPT !.buf.len = 0]

\* bytes.NewReader(a.output.Bytes()): a reader over the slice Bytes returns,
\* which is a slice of the buffer's array; snap is what it holds now
NewReader(o) ==
    [taken |-> TRUE, arr |-> o.buf.arr, len |-> o.buf.len, snap |-> BufBytes(o)]

\* what reading the reader to its end gives
ReaderBytes(o) ==
    IF o.reader.arr = 0 THEN <<>>
    ELSE SubSeq(o.arrays[o.reader.arr], 1, o.reader.len)

outRest == <<agentVars, pipeVars, apiVars, alertVars, db, life, ui, plug, fsw, rhist, runner>>

InitOutput ==
    /\ impl = "fw"
    /\ now = 0
    /\ up = [s \in SessionIDs |-> NoSession]
    /\ writes = 0
    /\ heap = <<>>
    /\ index = NoIndex
    /\ disc = NoDisc
    /\ storePresent = FALSE
    /\ PipeIdle
    /\ AlertIdle
    /\ ApiIdle
    /\ outbuf = NoOut
    /\ db = NoDB
    /\ life = NoLife
    /\ ui = NoUI
    /\ plug = NoPlug
    /\ fsw = NoFsw
    /\ rhist = NoHist
    /\ runner = NoRun

\* the runtime writes a new text part
OutAddPart(tok) ==
    /\ Len(outbuf.texts) < MaxTexts
    /\ outbuf' = [outbuf EXCEPT !.texts = Append(@, tok)]
    /\ UNCHANGED outRest

\* the runtime rewrites the text of a part while the text streams in
OutRewritePart(k, tok) ==
    /\ k \in 1..Len(outbuf.texts)
    /\ outbuf.texts[k] # tok
    /\ outbuf' = [outbuf EXCEPT !.texts[k] = tok]
    /\ UNCHANGED outRest

\* OpenCodeAgent.Refresh: the buffer is reset and, unless the message
\* directory cannot be read, written again from the parts
OutRefresh ==
    /\ \E fail \in {"none", "messages"} :
          outbuf' = IF fail = "messages" THEN BufReset(outbuf)
                    ELSE WriteTexts(BufReset(outbuf), outbuf.texts)
    /\ UNCHANGED outRest

\* OpenCodeAgent.Output: LoadFullHistory on first use, then a new reader
OutOutput ==
    /\ LET o == IF outbuf.loaded THEN outbuf
                ELSE [WriteTexts(outbuf, outbuf.texts) EXCEPT !.loaded = TRUE]
       IN outbuf' = [o EXCEPT !.reader = NewReader(o)]
    /\ UNCHANGED outRest

NextOutput ==
    \/ \E tok \in Toks : OutAddPart(tok)
    \/ \E k \in 1..MaxTexts, tok \in Toks : OutRewritePart(k, tok)
    \/ OutRefresh
    \/ OutOutput

SpecOutput == InitOutput /\ [][NextOutput]_vars

\* ------------------------------------------------------- session store
MaxStoreOps == 3    \* Store calls in one behaviour
MaxChunks == 1      \* output chunks of one session

\* seconds of a day
Day == 86400

\* the zero time.Time (year 1), which SessionRecord.EndTime holds when no end
\* time was given: earlier than every instant of the clock and every cutoff
ZeroTime == 0 - 2000000000

\* an end_time column that is NULL
NULL == [null |-> TRUE, t |-> 0]

\* the SessionRecord values passed to SaveSession
SessionRecords ==
    [id : StoreIDs, agent_name : {"n1", "n2"}, directory : {"/d1", "/d2"},
     project_id : {"p1", "p2"}, status : {"running", "completed"},
     end_time : {ZeroTime, 0}]

\* the driver binds a time.Time parameter as its formatted text, the zero
\* time included: the column is never NULL
BindTime(t) == [null |-> FALSE, t |-> t]

\* INSERT ... ON CONFLICT(id) DO UPDATE SET status, end_time, ..., updated_at
Upsert(row, rec, t) ==
    IF row.present
    THEN [row EXCEPT !.status = rec.status, !.end_time = BindTime(rec.end_time),
                     !.updated_at = t]
    ELSE [present |-> TRUE, agent_name |-> rec.agent_name, directory |-> rec.directory,
          project_id |-> rec.project_id, status |-> rec.status,
          end_time |-> BindTime(rec.end_time), updated_at |-> t]

\* GetSession: the row as a SessionRecord (a NULL end_time leaves the zero
\* time in the record), or <<>> for sql.ErrNoRows
GetSession(rows, id) ==
    IF ~rows[id].present THEN <<>>
    ELSE [id |-> id, agent_name |-> rows[id].agent_name,
          directory |-> rows[id].directory, project_id |-> rows[id].project_id,
          status |-> rows[id].status,
          end_time |-> IF rows[id].end_time.null THEN ZeroTime
                       ELSE rows[id].end_time.t]

\* WHERE end_time < cutoff AND end_time IS NOT NULL
Expired(row, cutoff) ==
    row.present /\ ~row.end_time.null /\ row.end_time.t < cutoff

\* a call on the Store begins
StoreCall(op, id, rec) ==
    [n |-> db.call.n + 1, op |-> op, id |-> id, rec |-> rec, got |-> <<>>]

storeRest == <<impl, up, writes, heap, index, disc, pipeVars, apiVars, alertVars,
               outbuf, life, ui, plug, fsw, rhist, runner>>

InitStore ==
    /\ impl = "fw"
    /\ now = 0
    /\ up = [s \in SessionIDs |-> NoSession]
    /\ writes = 0
    /\ heap = <<>>
    /\ index = NoIndex
    /\ disc = NoDisc
    /\ storePresent = TRUE
    /\ PipeIdle
    /\ AlertIdle
    /\ ApiIdle
    /\ outbuf = NoOut
    /\ db = NoDB
    /\ life = NoLife
    /\ ui = NoUI
    /\ plug = NoPlug
    /\ fsw = NoFsw
    /\ rhist = NoHist
    /\ runner = NoRun

\* time passes
StoreTick ==
    /\ \E t \in PipeInstants : t > now /\ now' = t
    /\ UNCHANGED <<storeRest, db>>

\* Store.SaveSession(rec)
StoreSaveSession(rec) ==
    /\ db.call.n < MaxStoreOps
    /\ db' = [db EXCEPT !.rows[rec.id] = Upsert(@, rec, now),
                        !.call = StoreCall("SaveSession", rec.id, rec)]
    /\ UNCHANGED <<storeRest, now>>

\* Store.GetSession(id)
StoreGetSession(id) ==
    /\ db.call.n < MaxStoreOps
    /\ db' = [db EXCEPT !.call = [StoreCall("GetSession", id, <<>>) EXCEPT
                                     !.got = GetSession(db.rows, id)]]
    /\ UNCHANGED <<storeRest, now>>

\* Store.AppendOutput(id, chunk)
StoreAppendOutput(id) ==
    /\ db.call.n < MaxStoreOps
    /\ db.chunks[id] < MaxChunks
    /\ db' = [db EXCEPT !.chunks[id] = @ + 1,
                        !.call = StoreCall("AppendOutput", id, <<>>)]
    /\ UNCHANGED <<storeRest, now>>

\* Store.Cleanup(maxAgeDays): the chunks of the expired sessions, then the
\* expired sessions
StoreCleanup(maxAgeDays) ==
    /\ db.call.n < MaxStoreOps
    /\ LET cutoff == now - maxAgeDays * Day
       IN db' = [db EXCEPT
                    !.chunks = [id \in StoreIDs |->
                                   IF Expired(db.rows[id], cutoff) THEN 0 ELSE @[id]],
                    !.rows = [id \in StoreIDs |->
                                 IF Expired(db.rows[id], cutoff) THEN NoRow ELSE @[id]],
                    !.call = StoreCall("Cleanup", "", <<>>)]
    /\ UNCHANGED <<storeRest, now>>

NextStore ==
    \/ StoreTick
    \/ \E rec \in SessionRecords : StoreSaveSession(rec)
    \/ \E id \in StoreIDs : StoreGetSession(id)
    \/ \E id \in StoreIDs : StoreAppendOutput(id)
    \/ \E n \in {0, 1} : StoreCleanup(n)

SpecStore == InitStore /\ [][NextStore]_vars

\* ---------------------------------------------- Start and Stop, repeated
MaxLifeOps == 4     \* Start and Stop calls in one behaviour
MaxStarts == 2      \* scopes Start derives in one behaviour
MaxHandled == 2     \* events the reconciliation tasks handle in one behaviour

\* a scope derived by context.WithCancel is done when it or the caller's
\* context was cancelled
ScopeDone(l, k) == l.scopes[k] \/ l.parent

\* the reconciliation tasks that have not returned
Running(l) == {k \in 1..Len(l.tasks) : l.tasks[k].state = "running"}

\* the reconciliation tasks that go on consuming events: they have not
\* returned and their scope is not done
Consuming(l) == {k \in Running(l) : ~ScopeDone(l, l.tasks[k].scope)}

\* Manager.Stop: m.cancel(), when it is set, cancels the scope it belongs to
Stop_cancel(l) == IF l.cancel = 0 THEN l ELSE [l EXCEPT !.scopes[l.cancel] = TRUE]

lifeRest == <<agentVars, pipeVars, apiVars, alertVars, outbuf, db, ui, plug, fsw, rhist, runner>>

InitLife ==
    /\ impl = "fw"
    /\ now = 0
    /\ up = [s \in SessionIDs |-> NoSession]
    /\ writes = 0
    /\ heap = <<>>
    /\ index = NoIndex
    /\ disc = NoDisc
    /\ storePresent = FALSE
    /\ PipeIdle
    /\ AlertIdle
    /\ ApiIdle
    /\ outbuf = NoOut
    /\ db = NoDB
    /\ life = NoLife
    /\ ui = NoUI
    /\ plug = NoPlug
    /\ fsw = NoFsw
    /\ rhist = NoHist
    /\ runner = NoRun

\* Manager.Start: a new scope replaces m.cancel; when DiscoverAll and
\* WatchAll succeed a reconciliation task is launched on the new scope
LifeStart ==
    /\ life.n < MaxLifeOps
    /\ Len(life.scopes) < MaxStarts
    /\ \E ok \in BOOLEAN :
          life' = [life EXCEPT
                      !.scopes = Append(@, FALSE),
                      !.cancel = Len(life.scopes) + 1,
                      !.tasks = IF ok
                                THEN Append(@, [scope |-> Len(life.scopes) + 1,
                                                state |-> "running"])
                                ELSE @,
                      !.n = @ + 1, !.op = "Start"]
    /\ UNCHANGED lifeRest

\* Manager.Stop
LifeStop ==
    /\ life.n < MaxLifeOps
    /\ life' = [Stop_cancel(life) EXCEPT !.n = @ + 1, !.op = "Stop"]
    /\ UNCHANGED lifeRest

\* the caller cancels the context it passed to Start
LifeParentCancel ==
    /\ ~life.parent
    /\ life' = [life EXCEPT !.parent = TRUE, !.op = "cancel"]
    /\ UNCHANGED lifeRest

\* processEvents: the select takes an event and handles it
LifeHandle(k) ==
    /\ k \in Running(life)
    /\ life.handled < MaxHandled
    /\ life' = [life EXCEPT !.handled = @ + 1, !.op = "handle"]
    /\ UNCHANGED lifeRest

\* processEvents: the select takes ctx.Done() and the task returns
LifeReturn(k) ==
    /\ k \in Running(life)
    /\ ScopeDone(life, life.tasks[k].scope)
    /\ life' = [life EXCEPT !.tasks[k].state = "returned", !.op = "return"]
    /\ UNCHANGED lifeRest

NextLife ==
    \/ LifeStart
    \/ LifeStop
    \/ LifeParentCancel
    \/ \E k \in 1..MaxStarts : LifeHandle(k)
    \/ \E k \in 1..MaxStarts : LifeReturn(k)

SpecLife == InitLife /\ [][NextLife]_vars

\* ------------------------------------------- events on their way to the UI
EventChanCap == 2   \* capacity of the UI's event queue (100 in the program)
MaxUIEvents == 6    \* events the reconciliation task handles in one behaviour

\* the callback main registers: a send into the UI's queue that gives up at
\* once (select with default) when the queue is full
OnEventCallback(q, e) == IF Len(q) < EventChanCap THEN Append(q, e) ELSE q

\* the end of handleEvent: the callback is called when one is registered
Notify(u, e) == IF u.onEvent THEN OnEventCallback(u.queue, e) ELSE u.queue

\* the events in a queue
InQueue(q) == {q[k] : k \in 1..Len(q)}

uiRest == <<agentVars, pipeVars, apiVars, alertVars, outbuf, db, life, plug, fsw, rhist, runner>>

InitUI ==
    /\ impl = "fw"
    /\ now = 0
    /\ up = [s \in SessionIDs |-> NoSession]
    /\ writes = 0
    /\ heap = <<>>
    /\ index = NoIndex
    /\ disc = NoDisc
    /\ storePresent = FALSE
    /\ PipeIdle
    /\ AlertIdle
    /\ ApiIdle
    /\ outbuf = NoOut
    /\ db = NoDB
    /\ life = NoLife
    /\ ui = NoUI
    /\ plug = NoPlug
    /\ fsw = NoFsw
    /\ rhist = NoHist
    /\ runner = NoRun

\* main: sessionMgr.Start(ctx) launches the reconciliation task
UIStart ==
    /\ ui.pc = "init"
    /\ ui' = [ui EXCEPT !.pc = "started", !.op = "Start"]
    /\ UNCHANGED uiRest

\* main: tui.NewApp makes the queue, then sessionMgr.OnEvent sets m.onEvent
UIOnEvent ==
    /\ ui.pc = "started"
    /\ ui' = [ui EXCEPT !.pc = "registered", !.onEvent = TRUE, !.op = "OnEvent"]
    /\ UNCHANGED uiRest

\* main: p.Run() starts the UI's loop
UIRun ==
    /\ ui.pc = "registered"
    /\ ui' = [ui EXCEPT !.pc = "running", !.op = "Run"]
    /\ UNCHANGED uiRest

\* the reconciliation task handles one event and notifies the callback
UIHandleEvent ==
    /\ ui.pc # "init"
    /\ ui.handled < MaxUIEvents
    /\ ui' = [ui EXCEPT !.handled = @ + 1,
                        !.queue = Notify(ui, ui.handled + 1),
                        !.op = "handle"]
    /\ UNCHANGED uiRest

\* App.waitForEvents: the UI takes the event at the head of its queue
UIWaitForEvents ==
    /\ ui.pc = "running"
    /\ ui.queue # <<>>
    /\ ui' = [ui EXCEPT !.queue = Tail(@), !.seen = Append(@, Head(ui.queue)),
                        !.op = "receive"]
    /\ UNCHANGED uiRest

NextUI ==
    \/ UIStart
    \/ UIOnEvent
    \/ UIRun
    \/ UIHandleEvent
    \/ UIWaitForEvents

SpecUI == InitUI /\ [][NextUI]_vars

\* ------------------------------------------------------- plugin Manager
MaxPlugOps == 3     \* calls on the plugin Manager in one behaviour

\* the plugins a caller may hand to Register
Plugins == [name : PluginNames, type : PluginTypes, version : 1..2]

\* Register with the duplicate check left out
RegisterErrorEmptyOnly(pg, pl) == pl.name = ""

\* Manager.Register: the two conditions under which it returns an error
RegisterError(pg, pl) == pl.name = "" \/ pg.plugins[pl.name] # NoPlugin

\* Registry.Register: providers[provider.Type()] = provider
RegistryRegister(reg, pl) == [reg EXCEPT ![pl.type] = pl]

\* Manager.Register
Register(pg, pl) ==
    IF RegisterError(pg, pl)
    THEN [pg EXCEPT !.err = TRUE]
    ELSE [pg EXCEPT !.plugins[pl.name] = pl,
                    !.registry = IF pg.hasRegistry THEN RegistryRegister(@, pl)
                                 ELSE @,
                    !.err = FALSE]

\* Manager.Unregister
Unregister(pg, name) ==
    IF pg.plugins[name] = NoPlugin
    THEN [pg EXCEPT !.err = TRUE]
    ELSE [pg EXCEPT !.plugins[name] = NoPlugin, !.err = FALSE]

\* Manager.Get
PluginGet(pg, name) == [pl |-> pg.plugins[name], ok |-> pg.plugins[name] # NoPlugin]

\* the record of a call
PlugCall(pg, op, pl, name) ==
    [pg EXCEPT !.n = plug.n + 1, !.op = op, !.pl = pl, !.name = name]

plugRest == <<agentVars, pipeVars, apiVars, alertVars, outbuf, db, life, ui, fsw, rhist, runner>>

InitPlug ==
    /\ impl = "fw"
    /\ now = 0
    /\ up = [s \in SessionIDs |-> NoSession]
    /\ writes = 0
    /\ heap = <<>>
    /\ index = NoIndex
    /\ disc = NoDisc
    /\ storePresent = FALSE
    /\ PipeIdle
    /\ AlertIdle
    /\ ApiIdle
    /\ outbuf = NoOut
    /\ db = NoDB
    /\ life = NoLife
    /\ ui = NoUI
    /\ plug \in {NewPluginManager(r) : r \in BOOLEAN}
    /\ fsw = NoFsw
    /\ rhist = NoHist
    /\ runner = NoRun

PlugRegister(pl) ==
    /\ plug.n < MaxPlugOps
    /\ plug' = PlugCall(Register(plug, pl), "Register", pl, pl.name)
    /\ UNCHANGED plugRest

PlugUnregister(name) ==
    /\ plug.n < MaxPlugOps
    /\ plug' = PlugCall(Unregister(plug, name), "Unregister", NoPlugin, name)
    /\ UNCHANGED plugRest

PlugGet(name) ==
    /\ plug.n < MaxPlugOps
    /\ plug' = [PlugCall(plug, "Get", NoPlugin, name) EXCEPT
                   !.got = PluginGet(plug, name).pl,
                   !.ok = PluginGet(plug, name).ok,
                   !.err = FALSE]
    /\ UNCHANGED plugRest

NextPlug ==
    \/ \E pl \in Plugins : PlugRegister(pl)
    \/ \E name \in PluginNames : PlugUnregister(name)
    \/ \E name \in PluginNames : PlugGet(name)

SpecPlug == InitPlug /\ [][NextPlug]_vars

\* ------------------------------- one file-watch agent over a given session
MaxStatusParts == 2     \* parts of the session's message
PartTimes == {0, 60}    \* creation times of the parts

\* the part directories a message may have: up to MaxStatusParts parts, in
\* name order, of any state and creation time
PartSeqs ==
    UNION {[1..n -> [state : PartStates, created : PartTimes]] :
              n \in 0..MaxStatusParts}

\* a session with one message created at 0 whose part directory is ps
SessionWith(ps) ==
    [exists |-> TRUE, created |-> 0, updated |-> 0,
     msgs |-> <<[created |-> 0, parts |-> ps]>>]

\* the session ses_A is in the storage tree and the provider has discovered
\* it: one agent, made by NewOpenCodeAgent, is in the index
InitStatus ==
    /\ impl = "fw"
    /\ now = 60
    /\ \E ps \in PartSeqs :
          up = [s \in SessionIDs |-> IF s = "ses_A" THEN SessionWith(ps)
                                     ELSE NoSession]
    /\ writes = 0
    /\ heap = <<NewOpenCodeAgent("ses_A", now)>>
    /\ index = [NoIndex EXCEPT !["ses_A"] = 1]
    /\ disc = NoDisc
    /\ storePresent = FALSE
    /\ PipeIdle
    /\ AlertIdle
    /\ ApiIdle
    /\ MoreIdle

NextStatus ==
    \/ Tick
    \/ \E i \in 1..MaxInst : AgentRefresh(i)
    \/ \E i \in 1..MaxInst : AgentOutput(i)

SpecStatus == InitStatus /\ [][NextStatus]_vars

\* ------------------------------------ file-watch provider: notifications
MaxFswEvents == 2   \* notifications handled in one behaviour
MaxPending == 1     \* notifications waiting in watcher.Events
MaxWatchWrites == 1 \* writes of the upstream runtime while Watch runs

\* the id of message m of session s, and the session and index of a message id
MsgIDs == {"msg_A1"}
MsgOwner(mid) == "ses_A"
MsgIndex(mid) == 1

\* the storage tree: session/<project>/<session id>.json,
\* message/<session id>/<message id>.json, part/<message id>/<part id>.json,
\* and files of the same directories that do not end in .json
Paths ==
    [top : {"session"}, sub : {"proj"}, file : SessionIDs, json : BOOLEAN]
    \cup [top : {"message"}, sub : HasMessages, file : MsgIDs, json : BOOLEAN]
    \cup [top : {"part"}, sub : MsgIDs, file : {"prt"}, json : BOOLEAN]

\* the file of a path is in the storage tree
FileExists(p) ==
    CASE p.top = "session" -> up[p.file].exists
      [] p.top = "message" -> MsgOwner(p.file) = p.sub
                              /\ Len(up[p.sub].msgs) >= MsgIndex(p.file)
      [] p.top = "part" -> /\ Len(up[MsgOwner(p.sub)].msgs) >= MsgIndex(p.sub)
                           /\ up[MsgOwner(p.sub)].msgs[MsgIndex(p.sub)].parts # <<>>

\* p.agents[key]: 0 when the key is not in the map
AgentsLookup(ix, key) == IF key \in SessionIDs THEN ix[key] ELSE 0

\* handleFileChange, second branch: the path element that follows the first
\* "message" or "part" element is taken as the session id
PathSessionID(p) == p.sub

\* the record of a handled change
Handled33(p, i, old, new) == [path |-> p, agent |-> i, old |-> old, new |-> new]

watchRest == <<pipeVars, apiVars, alertVars, outbuf, db, life, ui, plug,
               impl, now, up, writes, disc, rhist, runner>>

\* fsnotify puts a create or write notification into watcher.Events
FswNotify(p) ==
    /\ FileExists(p)
    /\ p \notin fsw.pending
    /\ Cardinality(fsw.pending) < MaxPending
    /\ fsw.n + Cardinality(fsw.pending) < MaxFswEvents
    /\ fsw' = [fsw EXCEPT !.pending = @ \cup {p}, !.op = "notify"]
    /\ UNCHANGED <<watchRest, heap, index>>

\* case event := <-watcher.Events: p.handleFileChange(event.Name, events)
FswHandleFileChange(p) ==
    /\ p \in fsw.pending
    /\ LET f == [fsw EXCEPT !.pending = @ \ {p}, !.n = @ + 1, !.op = "handle"]
       IN IF p.top = "session" /\ p.json
          THEN IF ~up[p.file].exists
               THEN /\ fsw' = [f EXCEPT !.last = Handled33(p, 0, "", "")]
                    /\ UNCHANGED <<heap, index>>
               ELSE IF index[p.file] = 0
               THEN /\ Len(heap) < MaxInst
                    /\ heap' = Append(heap, NewOpenCodeAgent(p.file, now))
                    /\ index' = [index EXCEPT ![p.file] = Len(heap) + 1]
                    /\ fsw' = [f EXCEPT
                          !.events = Append(@, [type |-> "discovered",
                                                id |-> p.file,
                                                agent |-> Len(heap) + 1]),
                          !.last = Handled33(p, Len(heap) + 1, "", "")]
               ELSE \E fail \in {"none", "session", "messages"} :
                    LET i == index[p.file]
                        a == Refresh(heap[i], now, fail)
                    IN /\ heap' = [heap EXCEPT ![i] = a]
                       /\ UNCHANGED index
                       /\ fsw' = [f EXCEPT
                             !.events = Append(@, [type |-> "updated",
                                                   id |-> a.id, agent |-> i]),
                             !.last = Handled33(p, i, heap[i].status, a.status)]
          ELSE IF p.top \in {"message", "part"} /\ p.json
                  /\ AgentsLookup(index, PathSessionID(p)) # 0
          THEN \E fail \in {"none", "session", "messages"} :
               LET i == AgentsLookup(index, PathSessionID(p))
                   a == Refresh(heap[i], now, fail)
               IN /\ heap' = [heap EXCEPT ![i] = a]
                  /\ UNCHANGED index
                  /\ fsw' = [f EXCEPT
                        !.events = Append(@,
                            [type |-> FwEventType(heap[i].status, a.status),
                             id |-> a.id, agent |-> i]),
                        !.last = Handled33(p, i, heap[i].status, a.status)]
          ELSE /\ fsw' = [f EXCEPT !.last = Handled33(p, 0, "", "")]
               /\ UNCHANGED <<heap, index>>
    /\ UNCHANGED watchRest

\* the agents of refreshAll's snapshot of the index, and the events the pass
\* sends: one for every agent whose status the refresh changed
RefreshAllEvents(h1, h2, is) ==
    LET changed == SelectSeq(is, LAMBDA i : h1[i].status # h2[i].status)
    IN [k \in 1..Len(changed) |->
           [type |-> FwEventType(h1[changed[k]].status, h2[changed[k]].status),
            id |-> h2[changed[k]].id, agent |-> changed[k]]]

\* refreshAll: every agent of the snapshot is refreshed
RefreshAllHeap(h, ix, t, fail) ==
    [i \in 1..Len(h) |-> IF i \in Indexed(ix) THEN Refresh(h[i], t, fail) ELSE h[i]]

\* refreshAll's snapshot of the index
RefreshAllSnapshot(ix) ==
    [k \in 1..Len(SeqOfSet({s \in SessionIDs : ix[s] # 0})) |->
        ix[SeqOfSet({s \in SessionIDs : ix[s] # 0})[k]]]

\* case <-ticker.C: p.refreshAll(events)
FswRefreshAll ==
    /\ \E fail \in {"none", "session", "messages"} :
          /\ heap' = RefreshAllHeap(heap, index, now, fail)
          /\ fsw' = [fsw EXCEPT
                !.events = @ \o RefreshAllEvents(heap,
                                    RefreshAllHeap(heap, index, now, fail),
                                    RefreshAllSnapshot(index)),
                !.op = "refreshAll"]
    /\ UNCHANGED <<watchRest, index>>

\* Start has run DiscoverAll and Watch: the session ses_A, with one message
\* and at most one part, is in the storage tree and its agent in the index
InitWatch ==
    /\ impl = "fw"
    /\ now = 60
    /\ \E ps \in {q \in PartSeqs : Len(q) <= 1 /\ \A k \in 1..Len(q) : q[k].created = 0} :
          up = [s \in SessionIDs |-> IF s = "ses_A" THEN SessionWith(ps)
                                     ELSE NoSession]
    /\ writes = 0
    /\ heap = <<NewOpenCodeAgent("ses_A", now)>>
    /\ index = [NoIndex EXCEPT !["ses_A"] = 1]
    /\ disc = NoDisc
    /\ storePresent = FALSE
    /\ PipeIdle
    /\ AlertIdle
    /\ ApiIdle
    /\ MoreIdle

\* the runtime creates a session, adds a part or ends a running tool call
WatchUpstream ==
    /\ writes < MaxWatchWrites
    /\ \E s \in SessionIDs :
          \/ UpCreateSession(s)
          \/ \E m \in 1..MaxMsgs, st \in PartStates : UpAddPart(s, m, st)
          \/ \E m \in 1..MaxMsgs, k \in 1..MaxParts, st \in PartStates :
                UpSetPartState(s, m, k, st)
    /\ writes' = writes + 1
    /\ UNCHANGED <<pipeVars, apiVars, moreVars, alertVars, impl, now, heap, index, disc>>

NextWatch ==
    \/ Tick
    \/ WatchUpstream
    \/ \E p \in Paths : FswNotify(p)
    \/ \E p \in Paths : FswHandleFileChange(p)
    \/ FswRefreshAll

SpecWatch == InitWatch /\ [][NextWatch]_vars

\* the Watch goroutine keeps running: its select takes a waiting notification
\* and the ticker fires every watch_interval; nothing obliges fsnotify to
\* deliver a notification
SpecWatchLive ==
    /\ InitWatch
    /\ [][NextWatch]_vars
    /\ WF_vars(FswRefreshAll)
    /\ WF_vars(\E p \in Paths : FswHandleFileChange(p))

\* ---------------------------------------------- poll provider: index lock
\* pollForChanges holds p.mu from before its first iteration until after its
\* last, the channel sends included
PollLockHeld == impl = "poll" /\ wpc \in {"visit", "send"}

InitPoll ==
    /\ Init
    /\ impl = "poll"

\* the poll provider under the manager, from Start to after Stop
NextPoll ==
    \/ Start
    \/ Stop
    \/ PipeTick
    \/ PipeUpstream
    \/ WatchPass
    \/ PollVisit
    \/ WatchSend
    \/ WatchReturn
    \/ \E p \in Provs : FwdRecv(p)
    \/ \E p \in Provs : FwdEnd(p)
    \/ \E p \in Provs : FwdSend(p)
    \/ \E p \in Provs : FwdCancel(p)
    \/ MgrRecv
    \/ MgrReturn
    \/ MgrStore
    \/ MgrAlert
    \/ MgrCallback

\* every goroutine that can take a step takes one: the watch goroutine, the
\* forwarders and the reconciliation task
PollFair ==
    /\ WF_vars(PollVisit)
    /\ WF_vars(WatchSend)
    /\ WF_vars(WatchReturn)
    /\ WF_vars(\E p \in Provs : FwdRecv(p))
    /\ WF_vars(\E p \in Provs : FwdEnd(p))
    /\ WF_vars(\E p \in Provs : FwdSend(p) \/ FwdCancel(p))
    /\ WF_vars(MgrRecv \/ MgrReturn)
    /\ WF_vars(MgrStore)
    /\ WF_vars(MgrAlert)
    /\ WF_vars(MgrCallback)

SpecPoll == InitPoll /\ [][NextPoll]_vars

SpecPollLive == InitPoll /\ [][NextPoll]_vars /\ PollFair

\* ------------------------------------------------------ streaming Runner
MaxRunOps == 5

runRest == <<agentVars, pipeVars, alertVars, apiVars, outbuf, db, life, ui, plug, fsw, rhist>>

\* a call on the Runner returned
RunCall(r, op, ret) == [r EXCEPT !.op = op, !.ret = ret, !.n = @ + 1]

InitRun ==
    /\ Init
    /\ impl = "fw"

\* Runner.Start up to r.mu.Unlock(): a Runner marked running refuses,
\* otherwise it is marked running
RunStartMark ==
    /\ runner.n < MaxRunOps
    /\ runner.spc = "idle"
    /\ runner' = IF runner.running
                 THEN RunCall(runner, "Start", "already started")
                 ELSE [runner EXCEPT !.running = TRUE, !.spc = "exec"]
    /\ UNCHANGED runRest

\* Runner.Start from r.cmd.Start() on: a failure returns the error, a
\* success starts waitForCompletion; a command whose context is already
\* done does not start, and exec.Cmd starts once only
RunStartExec ==
    /\ runner.spc = "exec"
    /\ \E ok \in BOOLEAN :
          /\ runner.cancelled \/ runner.started > 0 => ~ok
          /\ runner' = IF ok
                       THEN [RunCall(runner, "Start", "nil") EXCEPT
                               !.spc = "idle", !.proc = "running", !.wpc = "wait",
                               !.started = @ + 1]
                       ELSE [RunCall(runner, "Start", "failed to start") EXCEPT
                               !.spc = "idle", !.failed = @ + 1]
    /\ UNCHANGED runRest

\* the child process exits (by itself, or killed because the context of
\* exec.CommandContext is done)
RunProcExit ==
    /\ runner.proc = "running"
    /\ runner' = [runner EXCEPT !.proc = "exited"]
    /\ UNCHANGED runRest

\* waitForCompletion: r.cmd.Wait() returned, r.running = false
RunWaitReap ==
    /\ runner.wpc = "wait"
    /\ runner.proc = "exited"
    /\ runner' = [runner EXCEPT !.running = FALSE, !.wpc = "close"]
    /\ UNCHANGED runRest

\* waitForCompletion: close(r.done)
RunWaitClose ==
    /\ runner.wpc = "close"
    /\ runner' = [runner EXCEPT !.closes = @ + 1, !.wpc = "off"]
    /\ UNCHANGED runRest

\* Runner.Stop: r.cancel()
RunStop ==
    /\ runner.n < MaxRunOps
    /\ runner' = [RunCall(runner, "Stop", "") EXCEPT !.cancelled = TRUE]
    /\ UNCHANGED runRest

\* Runner.IsRunning
RunIsRunning ==
    /\ runner.n < MaxRunOps
    /\ runner' = RunCall(runner, "IsRunning", IF runner.running THEN "true" ELSE "false")
    /\ UNCHANGED runRest

\* Runner.Wait: <-r.done, so it returns only once done is closed
RunWait ==
    /\ runner.n < MaxRunOps
    /\ runner.closes > 0
    /\ runner' = RunCall(runner, "Wait", "returned")
    /\ UNCHANGED runRest

NextRun ==
    \/ RunStartMark
    \/ RunStartExec
    \/ RunProcExit
    \/ RunWaitReap
    \/ RunWaitClose
    \/ RunStop
    \/ RunIsRunning
    \/ RunWait

SpecRun == InitRun /\ [][NextRun]_vars

\* ---------------------------------------------------------------- claims

\* C1: once Terminate has set an instance's status to cancelled, the status
\* of that instance is cancelled in every later state in which the instance
\* is still referenced.
C1_CancelledLatched ==
    [][\A i \in 1..Len(heap) :
          (heap[i].status = "cancelled" /\ heap'[i].status # "freed")
             => heap'[i].status = "cancelled"]_vars

\* C2: after Manager.Terminate(id) succeeded for an agent of the live map,
\* Store present, the agent the live map holds for id has status cancelled,
\* whatever events followed, and the Store's row for id says cancelled.
C2_TerminateSticks ==
    \A id \in AgentIDs :
        (storePresent /\ termd[id] # 0 /\ agents[id] = termd[id])
            => /\ heap[agents[id]].status = "cancelled"
               /\ store[id] = "cancelled"

\* C3: for one provider and one agent id, handleEvent processes the
\* provider's events in the order the provider put them on its watch
\* channel (seq is the position in that order), whatever the forwarders and
\* the reconciliation task interleave.
C3_PerAgentOrder ==
    \A j, k \in 1..Len(trace) :
        (/\ j < k
         /\ trace[j].step = "map" /\ trace[k].step = "map"
         /\ trace[j].src = trace[k].src
         /\ trace[j].id = trace[k].id)
            => trace[j].seq < trace[k].seq

\* two events of the opencode provider for one agent were handled, with the
\* MockProvider's event handled between them
C3_Witness ==
    \E i, j, k \in 1..Len(trace) :
        /\ i < j /\ j < k
        /\ trace[i].step = "map" /\ trace[j].step = "map" /\ trace[k].step = "map"
        /\ trace[i].src = "opencode" /\ trace[k].src = "opencode"
        /\ trace[i].id = trace[k].id
        /\ trace[j].src = "mock"

\* the places event n of provider p is at: slots of the provider's watch
\* channel, the forwarder's hand, slots of the merged channel, handleEvent
InChan(p, n)   == Cardinality({k \in 1..Len(chan[p]) : chan[p][k].seq = n})
InHand(p, n)   == IF fheld[p].seq = n THEN 1 ELSE 0
InMerged(p, n) ==
    Cardinality({k \in 1..Len(merged) : merged[k].src = p /\ merged[k].seq = n})
Handled(p, n)  ==
    Cardinality({k \in 1..Len(trace) :
        trace[k].step = "map" /\ trace[k].src = p /\ trace[k].seq = n})

\* C4: no event is dropped: every event a provider has put on its watch
\* channel is in exactly one place, on its way to handleEvent or handled
\* once; the forwarder and the reconciliation task discard nothing.
C4_NoEventDropped ==
    \A p \in Provs : \A n \in 1..emitted[p] :
        InChan(p, n) + InHand(p, n) + InMerged(p, n) + Handled(p, n) = 1

\* C5: once the scope is cancelled and every provider's watch channel is
\* closed and drained, every forwarder and the reconciliation task having
\* returned, the merged channel is closed.
C5_MergedClosedAfterDrain ==
    (/\ ctxDone
     /\ \A p \in Provs : Closed(p) /\ chan[p] = <<>> /\ fpc[p] = "done"
     /\ mpc = "done")
        => mergedClosed

\* C6: after cancellation the watch goroutine is never parked for good: it
\* is not at a send into a full watch channel whose reader has returned.
C6_WatchReturnsAfterCancel ==
    ~(/\ ctxDone
      /\ wpc = "send"
      /\ Len(chan["opencode"]) = ChanCap
      /\ fpc["opencode"] = "done")

\* C7: handleEvent's reconciliation table.  After a terminated event the id
\* is absent from the live map; after any other event that carries an agent
\* snapshot the entry of event.AgentID is that snapshot; the entries of all
\* other ids are unchanged.
C7_ReconciliationTable ==
    [][(mcur = NoEvent /\ mcur' # NoEvent) =>
          /\ mcur'.type = "terminated" => agents'[mcur'.id] = 0
          /\ (mcur'.type # "terminated" /\ mcur'.agent # 0)
                => agents'[mcur'.id] = mcur'.agent
          /\ \A id \in AgentIDs \ {mcur'.id} : agents'[id] = agents[id]]_vars

\* the second event replaced the snapshot of an id already in the live map,
\* another id being present
C7_Witness ==
    /\ mcur.seq = 2
    /\ mcur.type # "terminated"
    /\ mcur.agent = 2
    /\ agents["mock_1"] = 2
    /\ agents["ses_A"] = 3

C9_RefreshReconciles ==
    [][(rpc = "apply" /\ rpc' = "idle") =>
          /\ {id \in AgentIDs : agents'[id] # 0} = {heap[i].id : i \in Range(rsnap)}
          /\ \A i \in Range(rsnap) : agents'[heap[i].id] = i]_vars

\* a Refresh whose discovery did not return ses_A evicted it: the session
\* had been in the live map (its row is in the Store) and still exists
\* upstream, the mock agent stayed
C9_Witness ==
    /\ rpc = "idle"
    /\ store["ses_A"] # ""
    /\ up["ses_A"].exists
    /\ agents["ses_A"] = 0
    /\ agents["mock_1"] # 0

\* C10: two successive Discover calls of a provider with unchanged upstream
\* return the same ids, each bound to the same instance in both results and
\* in the provider index.
C10_DiscoverPreservesIdentity ==
    disc.succ =>
        /\ {x[1] : x \in Range(disc.prev)} = {x[1] : x \in Range(disc.last)}
        /\ \A x \in Range(disc.prev), y \in Range(disc.last) :
              x[1] = y[1] => x[2] = y[2] /\ index[y[1]] = y[2]

\* C11: in every reachable state of the Manager the by-status counts of
\* Stats() add up to Stats().Total, which is the number of agents List()
\* returns on the same live map.
C11_StatsConsistent ==
    /\ SumBy(Stats(agents, heap).ByStatus, Statuses) = Stats(agents, heap).Total
    /\ Stats(agents, heap).Total = Len(List(agents))

\* two agents in the live map, one of them cancelled by Terminate
C11_Witness ==
    /\ Stats(agents, heap).Total = 2
    /\ Stats(agents, heap).ByStatus["cancelled"] = 1
    /\ termd["ses_A"] # 0

\* C12: after every call on the Alert Manager UnreadCount() is the number of
\* alerts of the ring with read = false; after MarkAllRead it is 0; and
\* MarkRead(id), an alert of the ring with that id being unread, lowers it
\* by exactly 1.
C12_UnreadCount ==
    [][aop'.n = aop.n + 1 =>
          /\ UnreadCount(alerts') =
                Cardinality({k \in 1..Len(alerts') : ~alerts'[k].read})
          /\ aop'.op = "MarkAllRead" => UnreadCount(alerts') = 0
          /\ (/\ aop'.op = "MarkRead"
              /\ \E k \in 1..Len(alerts) : alerts[k].id = aop'.id /\ ~alerts[k].read)
                => UnreadCount(alerts') = UnreadCount(alerts) - 1]_vars

\* C13: the ring never holds more than RingCap alerts; a Send into a full
\* ring discards exactly the oldest alert and keeps the others, then the
\* new one, in arrival order; a Send into a ring with room appends.
C13_RingBounded ==
    [][/\ Len(alerts') <= RingCap
       /\ (aop'.n = aop.n + 1 /\ aop'.made) =>
             /\ alerts'[Len(alerts')].id = aop'.id
             /\ alerts' = (IF Len(alerts) = RingCap THEN Tail(alerts) ELSE alerts)
                             \o <<alerts'[Len(alerts')]>>]_vars

\* one alert more than the ring holds was accepted and the ring is full
C13_Witness ==
    /\ Len(accepted) = RingCap + 1
    /\ Len(alerts) = RingCap
    /\ aop.made

\* C14: an alert accepted without a preset id has an id that no other
\* accepted alert has.
C14_UniqueIDs ==
    \A i, j \in 1..Len(accepted) :
        (i # j /\ accepted[i][1] = "alert") => accepted[i] # accepted[j]

\* C15: SendAgentEvent creates exactly one alert for an errored event (level
\* error), a completed event (level success) and a context_limit event
\* (level warning); for every other event type it creates no alert and
\* leaves the alerts as they are.
C15_Classification ==
    [][(aop'.n = aop.n + 1 /\ aop'.op = "SendAgentEvent") =>
          IF aop'.arg \in {"errored", "completed", "context_limit"}
          THEN /\ Len(accepted') = Len(accepted) + 1
               /\ alerts'[Len(alerts')].level =
                     (CASE aop'.arg = "errored" -> "error"
                        [] aop'.arg = "completed" -> "success"
                        [] aop'.arg = "context_limit" -> "warning")
               /\ \A k \in 1..(Len(alerts') - 1) :
                     \E j \in 1..Len(alerts) : alerts[j] = alerts'[k]
          ELSE alerts' = alerts /\ accepted' = accepted]_vars

\* a context_limit event made a warning alert, the call before it having
\* made none
C15_Witness ==
    /\ aop.op = "SendAgentEvent"
    /\ aop.arg = "context_limit"
    /\ aop.n = 2
    /\ Len(alerts) = 1
    /\ alerts[1].level = "warning"

\* C16: Send calls every configured channel once, in configuration order,
\* whether or not earlier channels failed; it returns the error of the last
\* channel that failed, nil if none did; the alert is in the ring whatever
\* the channels did.
C16_ChannelIsolation ==
    [][(aop'.n = aop.n + 1 /\ aop'.made) =>
          /\ aop'.sent = channels
          /\ aop'.ret =
                (IF \E k \in 1..Len(channels) : channels[k] \in aop'.failed
                 THEN channels[CHOOSE k \in 1..Len(channels) :
                          /\ channels[k] \in aop'.failed
                          /\ \A j \in (k + 1)..Len(channels) :
                                channels[j] \notin aop'.failed]
                 ELSE "")
          /\ alerts'[Len(alerts')].id = aop'.id
          /\ accepted' = Append(accepted, aop'.id)]_vars

\* the first channel failed, the later ones were still called and did not
\* fail, and the alert is in the ring
C16_Witness ==
    /\ aop.made
    /\ aop.failed = {"desktop"}
    /\ aop.sent = ChannelKinds
    /\ aop.ret = "desktop"
    /\ alerts # <<>>

\* C17: Manager.SendInput(id, text) and Manager.Terminate(id) with an id that
\* is not in the live map return nil, call no agent, and leave the live map,
\* every agent and the provider index as they were; with a known id they call
\* that id's agent and return what it returned.
C17_ManagerUnknownIdNoOp ==
    [][(api'.n = api.n + 1 /\ api'.prov = "manager") =>
          IF agents[api'.id] = 0
          THEN /\ api'.ret = "ok"
               /\ api'.target = 0
               /\ api'.res = ""
               /\ agents' = agents
               /\ heap' = heap
               /\ index' = index
          ELSE /\ api'.target = agents[api'.id]
               /\ api'.res # ""
               /\ api'.ret = api'.res
               /\ agents' = agents
               /\ api'.op = "Terminate" => heap'[api'.target].status = "cancelled"]_vars

\* C17: SendInput was called with an id that is not in a live map that holds
\* another agent
C17_Witness ==
    /\ api.op = "SendInput"
    /\ api.prov = "manager"
    /\ api.target = 0
    /\ api.text = "hi"
    /\ \E id \in AgentIDs : agents[id] # 0

\* C18: Manager.Spawn(config) goes on with the provider registered under
\* config.Type, or, when no provider has that type, with the provider that
\* was registered first; with no provider registered it returns an error
\* without crashing and leaves the live map as it was; and the agent a
\* successful Spawn returns is in the live map under its id.
C18_SpawnContract ==
    [][/\ (api'.n = api.n + 1 /\ api'.op = "Spawn") =>
            /\ api'.ret # "panic"
            /\ registry = <<>> => (api'.ret = "error" /\ agents' = agents)
            /\ api'.text \in Range(registry) => api'.prov = api'.text
            /\ (registry # <<>> /\ api'.text \notin Range(registry)) =>
                  api'.prov = registry[1]
       /\ (api'.op = "Spawn" /\ api'.ret = "ok" /\ api # api') =>
            /\ api'.agent # 0
            /\ agents'[api'.id] = api'.agent
            /\ heap'[api'.agent].id = api'.id]_vars

\* C19: Get, Terminate and SendInput of the opencode provider with an id that
\* is absent from the provider index return an error, and so does SendInput
\* with empty text; in each of these cases the provider index and the status
\* of every agent stay as they were.
C19_ProviderErrors ==
    [][(/\ api'.n = api.n + 1
        /\ api'.prov = "opencode"
        /\ api'.op \in {"Get", "Terminate", "SendInput"}
        /\ \/ ProviderLookup(index, api'.id) = 0
           \/ api'.op = "SendInput" /\ api'.text = "") =>
          /\ api'.ret = "error"
          /\ index' = index
          /\ Len(heap') = Len(heap)
          /\ \A i \in 1..Len(heap) : heap'[i].status = heap[i].status]_vars

\* C19: SendInput with empty text was called on an indexed agent and
\* returned an error
C19_Witness ==
    /\ api.op = "SendInput"
    /\ api.prov = "opencode"
    /\ api.target # 0
    /\ index[api.id] = api.target
    /\ api.text = ""
    /\ api.ret = "error"

C21_PendingWithoutMessages ==
    \A i \in 1..Len(heap) :
        (/\ heap[i].kind = "fw"
         /\ heap[i].status \notin {"freed", "cancelled"}
         /\ Len(up[heap[i].id].msgs) = 0) =>
            heap[i].status = "pending"

\* C22: the first status of an agent instance is pending, and every later
\* change of its status, by Refresh, Update or Terminate, is one of
\* pending->running, running->idle, idle->running, running->completed,
\* running->errored, errored->running, completed->running, any->cancelled,
\* any->context_limit.
C22_StatusTransitions ==
    [][\A i \in 1..Len(heap') :
          IF i > Len(heap)
          THEN heap'[i].status = "pending"
          ELSE (heap'[i].status # heap[i].status /\ heap'[i].status # "freed") =>
                  \/ heap'[i].status \in {"cancelled", "context_limit"}
                  \/ <<heap[i].status, heap'[i].status>> \in
                        {<<"pending", "running">>, <<"running", "idle">>,
                         <<"idle", "running">>, <<"running", "completed">>,
                         <<"running", "errored">>, <<"errored", "running">>,
                         <<"completed", "running">>}]_vars

C24_ActivityMonotonic ==
    [][\A i \in 1..Len(heap) :
          (i <= Len(heap') /\ heap'[i].status # "freed") =>
              heap'[i].lastActivity >= heap[i].lastActivity]_vars

\* C25: a Refresh is atomic for observers: the fields a caller reads after a
\* Refresh, one that returned an error part-way included, are either all
\* those of before the Refresh or all those of the completed Refresh, never
\* some of each.
C25_RefreshAtomic ==
    [][\A i \in Indexed(index) :
          (/\ heap[i].kind = "fw"
           /\ index' = index
           /\ heap'[i] # heap[i]
           /\ heap'[i].loaded = heap[i].loaded
           /\ heap'[i] # AgentTerminate(heap[i])) =>
              heap'[i] = Refresh(heap[i], now, "none")]_vars

\* C26: the reader Output() returned is a snapshot: what it gives when read
\* is what the buffer held when Output() was called, whatever Refresh does to
\* the buffer afterwards.
C26_ReaderIsSnapshot ==
    outbuf.reader.taken => ReaderBytes(outbuf) = outbuf.reader.snap

\* C27: whatever the Store held before, a row with the same id and another
\* name, directory or project included, GetSession(r.id) right after
\* SaveSession(r) returns a record equal to r in every field (created_at and
\* updated_at are not fields of the record).
C27_SaveThenGet ==
    [][(db'.call.n = db.call.n + 1 /\ db'.call.op = "SaveSession") =>
          GetSession(db'.rows, db'.call.id) = db'.call.rec]_vars

\* C28: Cleanup(n), for every n, 0 included, keeps every session that was
\* never given an end time, with its output chunks, and deletes only
\* sessions whose end time is set and older than the cutoff.
C28_CleanupKeepsActive ==
    [][(db'.call.n = db.call.n + 1 /\ db'.call.op = "Cleanup") =>
          \A id \in StoreIDs :
              (db.rows[id].present /\ db.rows[id].end_time \in {NULL, BindTime(ZeroTime)}) =>
                  /\ db'.rows[id] = db.rows[id]
                  /\ db'.chunks[id] = db.chunks[id]]_vars

\* C29: over every sequence of Start and Stop calls on one Manager, at most
\* one reconciliation task goes on consuming events; after a Stop the scope
\* of every reconciliation task that has not returned is done; and a Stop
\* that follows a Stop changes nothing.
C29_SingleTaskAndStop ==
    [][/\ Cardinality(Consuming(life')) <= 1
       /\ (life'.n = life.n + 1 /\ life'.op = "Stop") =>
             /\ Consuming(life') = {}
             /\ life.op = "Stop" =>
                   (life'.scopes = life.scopes /\ life'.tasks = life.tasks)]_vars

\* C30: every event the reconciliation task handled after Manager.Start is
\* in the UI's event queue or was read from it by the UI; none is discarded,
\* a full queue included.
C30_NoEventDropped ==
    \A e \in 1..ui.handled : e \in InQueue(ui.queue) \cup InQueue(ui.seen)

\* C31: Register of a plugin with an empty name or with a name already
\* registered returns an error and leaves the plugins and the Registry as
\* they were; Unregister of a name that is not registered returns an error
\* and changes nothing; after a Register without error Get returns the plugin
\* and the Registry, when there is one, holds it under its type.
C31_RegisterContract ==
    [][/\ (plug'.n = plug.n + 1 /\ plug'.op = "Register") =>
             /\ (plug'.pl.name = "" \/ plug.plugins[plug'.pl.name] # NoPlugin) =>
                    /\ plug'.err
                    /\ plug'.plugins = plug.plugins
                    /\ plug'.registry = plug.registry
             /\ ~plug'.err =>
                    /\ PluginGet(plug', plug'.pl.name) = [pl |-> plug'.pl, ok |-> TRUE]
                    /\ plug.hasRegistry => plug'.registry[plug'.pl.type] = plug'.pl
       /\ (plug'.n = plug.n + 1 /\ plug'.op = "Unregister"
             /\ plug.plugins[plug'.name] = NoPlugin) =>
             /\ plug'.err
             /\ plug'.plugins = plug.plugins
             /\ plug'.registry = plug.registry]_vars

\* C31 witness: a Register was rejected as a duplicate of a registered name
\* on a Manager with a Registry that holds the first plugin under its type
C31_Witness ==
    /\ plug.op = "Register" /\ plug.err /\ plug.pl.name # ""
    /\ plug.hasRegistry
    /\ plug.plugins[plug.pl.name] # NoPlugin
    /\ plug.plugins[plug.pl.name] # plug.pl
    /\ plug.registry[plug.plugins[plug.pl.name].type] = plug.plugins[plug.pl.name]

\* C32: whenever a part of a file-watch agent's messages has state running,
\* determineStatus gives running, whatever other parts exist and in whatever
\* order they are read.
C32_RunningPartWins ==
    \A i \in 1..Len(heap) :
        (/\ heap[i].kind = "fw"
         /\ \E k \in 1..Len(PartsRead(heap[i])) : PartsRead(heap[i])[k].state = "running")
        => determineStatus(heap[i], now).status = "running"

\* C39: what Output() returns for a file-watch agent holds each text part of
\* the session exactly once, in creation-time order, after every order of
\* Refresh, LoadFullHistory and Output calls.
C39_OutputOnce ==
    \A i \in 1..Len(heap) :
        heap[i].kind = "fw" =>
        LET s     == heap[i].id
            out   == LoadFullHistory(heap[i], now).output
            texts == {<<m, j>> \in (1..MaxMsgs) \X (1..MaxStatusParts) :
                         /\ m <= Len(up[s].msgs)
                         /\ j <= Len(up[s].msgs[m].parts)
                         /\ up[s].msgs[m].parts[j].state = ""}
        IN /\ Len(out) = Cardinality(texts)
           /\ {out[k] : k \in 1..Len(out)} = texts
           /\ \A k, l \in 1..Len(out) :
                 k < l => up[s].msgs[out[k][1]].parts[out[k][2]].created
                            <= up[s].msgs[out[l][1]].parts[out[l][2]].created

\* C33: when the file-watch provider handles a create/write notification for
\* a .json file under message/<session id>/ or under part/<message id>/ and
\* the session that owns the message or part has an agent in the index, that
\* agent is refreshed and an event for it is sent: started, completed or
\* errored when the status changed to that value, otherwise updated.
C33_ChangeRefreshesOwner ==
    [][(fsw'.n = fsw.n + 1 /\ fsw'.op = "handle"
          /\ fsw'.last.path.top \in {"message", "part"} /\ fsw'.last.path.json
          /\ index[IF fsw'.last.path.top = "message" THEN fsw'.last.path.sub
                   ELSE MsgOwner(fsw'.last.path.sub)] # 0)
       => /\ fsw'.last.agent =
                index[IF fsw'.last.path.top = "message" THEN fsw'.last.path.sub
                      ELSE MsgOwner(fsw'.last.path.sub)]
          /\ Len(fsw'.events) = Len(fsw.events) + 1
          /\ fsw'.events[Len(fsw'.events)].agent = fsw'.last.agent
          /\ fsw'.events[Len(fsw'.events)].type =
                FwEventType(fsw'.last.old, fsw'.last.new)]_vars

\* C34: a session that appears upstream while Watch is running is eventually
\* in the provider's index and reported by a discovered event, also when its
\* file-change notification is missed.
C34_MissedSessionDiscovered ==
    \A s \in SessionIDs :
        (up[s].exists /\ index[s] = 0) ~>
            (/\ index[s] # 0
             /\ \E k \in 1..Len(fsw.events) :
                   fsw.events[k].type = "discovered" /\ fsw.events[k].id = s)

\* C35: in every reachable state in which no Manager.Refresh is under way,
\* an id that is both in the Manager's live map and in the provider's index
\* refers to the same agent instance in both.
C35_TwoViewsOneInstance ==
    rpc = "idle" =>
        \A s \in SessionIDs :
            (agents[s] # 0 /\ index[s] # 0) => agents[s] = index[s]

\* C36: when Manager.Refresh returns, every agent that a discovered event
\* put into the live map after Refresh took its DiscoverAll snapshot and
\* before it acquired the live-map lock is still in the live map.
C36_RefreshKeepsNewcomers ==
    [][(rpc = "apply" /\ rpc' = "idle") => \A id \in rhist.new : agents'[id] # 0]_vars

\* C37: a Manager.Refresh during which the opencode provider's Discover
\* returned an error leaves every agent of that provider that was in the
\* live map in the live map.
C37_FailedDiscoverKeepsAgents ==
    [][(rpc = "apply" /\ rpc' = "idle" /\ rhist.failed) =>
          \A id \in SessionIDs : agents[id] # 0 => agents'[id] # 0]_vars

\* C38: an operation on the poll provider's index (Get, List, Terminate,
\* SendInput, Discover) returns as soon as it gets p.mu, so it returns
\* eventually exactly if the watch goroutine, whenever it holds p.mu,
\* eventually releases it.
C38_IndexLockReleased == PollLockHeld ~> ~PollLockHeld

\* C40: outside a call of Start, the Runner's running flag is set only while
\* its child process runs or has exited and is not yet reaped: it is clear
\* before Start and after a Start that returned an error; once done is
\* closed the flag is clear and the process has exited; done is closed at
\* most once; Wait returns only after that; Start succeeds at most once.
C40_RunningOnlyWhileProcess ==
    /\ runner.spc = "idle" =>
          (runner.running => runner.proc = "running" \/ runner.wpc = "wait")
    /\ runner.spc = "idle" /\ runner.closes > 0 =>
          ~runner.running /\ runner.proc = "exited"
    /\ runner.closes <= 1
    /\ runner.op = "Wait" => runner.closes = 1
    /\ runner.started <= 1

====
